---- MODULE Spec2Model ----
(***************************************************************************)
(* Model of the binned-statistics engine of Utilities/Statistics.py        *)
(* (SplitInBins, ComputeStats and the per-bin estimators), of              *)
(* get_spincorr_vars of Utilities/SpinCorr.py, of hist_1D of               *)
(* Utilities/Hist.py and of getAllData of Utilities/LoadData_Run2.py.      *)
(*                                                                         *)
(* Numbers.  The code works on floating-point arrays.  The model keeps     *)
(* every number exact: a number is a rational <<n, d>> in lowest terms     *)
(* with d > 0.  The only irrational operation of the code is np.sqrt in    *)
(* weighted_rms; its result is kept as a "root" record                     *)
(*    [nan |-> FALSE, sq |-> q]   the non-negative square root of q >= 0   *)
(*    [nan |-> TRUE,  sq |-> 0]   NaN (np.sqrt of a negative number)       *)
(***************************************************************************)
EXTENDS Integers, Sequences, FiniteSets, TLC

\* ------------------------------------------------------------------ bounds
\* largest number of events in a batch
MaxN == 5
\* largest integer binSpec, and largest number of explicit bins
MaxBins == 2

\* ------------------------------------------------------- exact arithmetic
Abs(a) == IF a < 0 THEN -a ELSE a

RECURSIVE GCD(_, _)
GCD(a, b) == IF b = 0 THEN a ELSE GCD(b, a % b)

\* the rational n/d (d # 0) in lowest terms with a positive denominator
Rat(n, d) ==
    LET s == IF d < 0 THEN -1 ELSE 1
        g == GCD(Abs(n), Abs(d))
    IN  <<(s * n) \div g, (s * d) \div g>>

Int2Rat(n) == <<n, 1>>
Zero == <<0, 1>>

RAdd(a, b) == Rat(a[1] * b[2] + b[1] * a[2], a[2] * b[2])
RSub(a, b) == Rat(a[1] * b[2] - b[1] * a[2], a[2] * b[2])
RMul(a, b) == Rat(a[1] * b[1], a[2] * b[2])
\* a / b, b # 0
RDiv(a, b) == Rat(a[1] * b[2], a[2] * b[1])
RLt(a, b) == a[1] * b[2] < b[1] * a[2]
RLe(a, b) == a[1] * b[2] <= b[1] * a[2]
RAbs(a) == <<Abs(a[1]), a[2]>>

\* math.floor and math.ceil (\div rounds towards minus infinity)
Floor(a) == a[1] \div a[2]
Ceil(a) == -((-a[1]) \div a[2])

\* np.sqrt: NaN below zero, otherwise the non-negative root
NaN == [nan |-> TRUE, sq |-> Zero]
Sqrt(q) == IF RLt(q, Zero) THEN NaN ELSE [nan |-> FALSE, sq |-> q]
\* the rational q >= 0 seen as a root
AsRoot(q) == [nan |-> FALSE, sq |-> RMul(q, q)]

\* ------------------------------------------------------- array helpers
RECURSIVE SumSeq(_)
\* np.sum
SumSeq(s) == IF s = <<>> THEN Zero ELSE RAdd(Head(s), SumSeq(Tail(s)))

\* elementwise product of two arrays of equal length
Times(a, b) == [i \in 1..Len(a) |-> RMul(a[i], b[i])]
Square(a) == Times(a, a)

\* np.average(a, weights=w), used only where sum(w) # 0
Average(a, w) == RDiv(SumSeq(Times(a, w)), SumSeq(w))

\* np.mean
Mean(a) == RDiv(SumSeq(a), Int2Rat(Len(a)))

RECURSIVE Insert(_, _)
Insert(v, s) ==
    IF s = <<>> THEN <<v>>
    ELSE IF RLe(v, Head(s)) THEN <<v>> \o s
    ELSE <<Head(s)>> \o Insert(v, Tail(s))

RECURSIVE Sort(_)
\* np.sort
Sort(s) == IF s = <<>> THEN <<>> ELSE Insert(Head(s), Sort(Tail(s)))

\* np.percentile(s, p) of a sorted non-empty array, default linear method:
\* the value at fractional rank p*(n-1)/100, interpolated between neighbours
Percentile(s, p) ==
    LET n == Len(s)
        pos == Rat(p * (n - 1), 100)
        lo == Floor(pos)
        frac == RSub(pos, Int2Rat(lo))
    IN  IF lo + 1 >= n THEN s[n]
        ELSE RAdd(s[lo + 1], RMul(frac, RSub(s[lo + 2], s[lo + 1])))

\* -------------------------------------------------- per-bin estimators
\* rms(x)
rms(a) == Sqrt(Mean(Square(a)))

\* weighted_rms falling back to the unweighted rms(x) when the weights cancel
weighted_rms_unweighted_fallback(a, w) ==
    LET total_weight == SumSeq(w)
    IN  IF total_weight = Zero THEN rms(a)
        ELSE Sqrt(Average(Square(a), w))

\* weighted_rms(x, weights)
weighted_rms(a, w) ==
    LET total_weight == SumSeq(w)
    IN  IF total_weight = Zero THEN AsRoot(Zero)
        ELSE Sqrt(Average(Square(a), w))

\* weighted_mean(x, weights)
weighted_mean(a, w) ==
    LET total_weight == SumSeq(w)
    IN  IF total_weight = Zero THEN Zero ELSE Average(a, w)

\* the 50th percentile taken at the middle position of x as given
median_unsorted(a) == Percentile(a, 50)

\* median(x)
median(a) ==
    LET sorted_x == Sort(a)
    IN  Percentile(sorted_x, 50)

\* the two percentiles read from x as given, without sorting
Q84Q16_unsorted(a) == RSub(Percentile(a, 84), Percentile(a, 16))

\* Q84Q16(x)
Q84Q16(a) ==
    LET sorted_x == Sort(a)
        q84 == Percentile(sorted_x, 84)
        q16 == Percentile(sorted_x, 16)
    IN  RSub(q84, q16)

\* weighted_variance averaging x**2 instead of (x-average)**2
weighted_variance_raw(a, w) ==
    LET total_weight == SumSeq(w)
    IN  IF total_weight = Zero THEN Zero
        ELSE Average(Square(a), w)

\* weighted_variance(x, weights)
weighted_variance(a, w) ==
    LET total_weight == SumSeq(w)
        average == Average(a, w)
        dev == [i \in 1..Len(a) |-> RSub(a[i], average)]
    IN  IF total_weight = Zero THEN Zero
        ELSE Average(Square(dev), w)

\* ------------------------------------------------------------ SplitInBins
\* np.linspace(start, stop, num) for num >= 0
Linspace(start, stop, num) ==
    IF num = 1 THEN <<start>>
    ELSE [i \in 1..num |->
            RAdd(start, RMul(Rat(i - 1, num - 1), RSub(stop, start)))]

\* np.amin, np.amax of a non-empty array
Amin(a) == CHOOSE v \in {a[i] : i \in 1..Len(a)} :
              \A i \in 1..Len(a) : RLe(v, a[i])
Amax(a) == CHOOSE v \in {a[i] : i \in 1..Len(a)} :
              \A i \in 1..Len(a) : RLe(a[i], v)

\* the bin edges SplitInBins works with: an integer `bins` is replaced by
\* linspace(floor(min), ceil(max), bins); an array of edges is used as given
BinEdgesOf(xs, b) ==
    IF b.isint
    THEN Linspace(Int2Rat(Floor(Amin(xs))), Int2Rat(Ceil(Amax(xs))), b.count)
    ELSE b.edges

\* bin_midpoints losing the last bin
BinMidpointsShort(e) ==
    [i \in 1..(Len(e) - 2) |-> RDiv(RAdd(e[i], e[i + 1]), Int2Rat(2))]

\* bin_midpoints = (bins[:-1] + bins[1:]) / 2
BinMidpoints(e) ==
    [i \in 1..(Len(e) - 1) |-> RDiv(RAdd(e[i], e[i + 1]), Int2Rat(2))]

\* bin_mask with the upper edge included: (x >= lo) & (x <= hi)
BinMaskClosed(xs, lo, hi) ==
    SelectSeq([i \in 1..Len(xs) |-> i],
              LAMBDA i : RLe(lo, xs[i]) /\ RLe(xs[i], hi))

\* bin_mask = (x >= bins[index]) & (x < bins[index+1]), as the selected
\* positions in input order
BinMask(xs, lo, hi) ==
    SelectSeq([i \in 1..Len(xs) |-> i],
              LAMBDA i : RLe(lo, xs[i]) /\ RLt(xs[i], hi))

\* a[mask] read from the last selected position to the first
TakeReversed(a, mask) == [j \in 1..Len(mask) |-> a[mask[Len(mask) + 1 - j]]]

\* a[mask]
Take(a, mask) == [j \in 1..Len(mask) |-> a[mask[j]]]

\* d[key] = val on an insertion-ordered dict kept as a sequence of entries:
\* an existing key keeps its position and gets the new value
DictSet(d, val) ==
    IF \E j \in 1..Len(d) : d[j].key = val.key
    THEN [j \in 1..Len(d) |-> IF d[j].key = val.key THEN val ELSE d[j]]
    ELSE Append(d, val)

RECURSIVE SplitLoop(_, _, _, _, _)
\* the dict after the first k rounds of the loop over enumerate(bin_midpoints);
\* `mask` records which input positions the entry's arrays were taken from
SplitLoop(data, xs, wt, e, k) ==
    IF k = 0 THEN <<>>
    ELSE LET bin_mask == BinMask(xs, e[k], e[k + 1])
         IN  DictSet(SplitLoop(data, xs, wt, e, k - 1),
                     [key |-> BinMidpoints(e)[k],
                      mask |-> bin_mask,
                      data |-> Take(data, bin_mask),
                      weight |-> Take(wt, bin_mask)])

\* SplitInBins raising only for an empty x
SplitRaisesOnEmptyOnly(data, xs, wt, b) == Len(xs) = 0

\* SplitInBins raises:
\*  - ValueError from np.amin/np.amax of an empty x, whatever `bins` is;
\*  - TypeError at (bins[:-1] + bins[1:]) / 2 when `bins` is a Python list
\*    (list + list concatenates, and a list cannot be divided);
\*  - IndexError at data[bin_mask] or weight[bin_mask] in the first round of
\*    the loop when data or weight is not as long as x (the boolean mask has
\*    the length of x)
SplitRaises(data, xs, wt, b) ==
    IF Len(xs) = 0 THEN TRUE
    ELSE IF ~b.isint /\ b.islist THEN TRUE
    ELSE /\ Len(BinMidpoints(BinEdgesOf(xs, b))) >= 1
         /\ Len(data) # Len(xs) \/ Len(wt) # Len(xs)

\* SplitInBins(data, x, weight, bins) when it does not raise
SplitInBins(data, xs, wt, b) ==
    LET e == BinEdgesOf(xs, b)
    IN  [binned_data |-> SplitLoop(data, xs, wt, e, Len(BinMidpoints(e))),
         bins |-> e]

\* ----------------------------------------------------------- ComputeStats
\* the placeholder threshold off by one
MinEventsOffByOne == 5 - 1

\* a bin with fewer events than this gets the placeholder statistics
MinEvents == 5

\* the six lists appended to in one round of the loop over the bins
StatsOfBin(entry) ==
    IF Len(entry.data) < MinEvents
    THEN [bins |-> entry.key, q84q16 |-> Zero, mean |-> Zero, median |-> Zero,
          variance |-> Zero, rms |-> AsRoot(Zero)]
    ELSE [bins |-> entry.key,
          q84q16 |-> Q84Q16(entry.data),
          mean |-> weighted_mean(entry.data, entry.weight),
          median |-> median(entry.data),
          variance |-> weighted_variance(entry.data, entry.weight),
          rms |-> weighted_rms(entry.data, entry.weight)]

ResultKeys == {"bins", "q84q16", "mean", "median", "rms", "variance"}

\* the result arrays in reverse dict order
StatsOfReversed(binned) ==
    [key \in ResultKeys |->
        [j \in 1..Len(binned) |-> StatsOfBin(binned[Len(binned) + 1 - j])[key]]]

\* the result dict of ComputeStats, one array per key, in dict order
StatsOf(binned) ==
    [key \in ResultKeys |->
        [j \in 1..Len(binned) |-> StatsOfBin(binned[j])[key]]]

\* ------------------------------------------- floating-point special values
\* get_spincorr_vars divides by magnitudes that can vanish.  Its numbers are
\* rationals or NaN; NaN is kept as <<0, 0>>.  Every zero denominator the
\* function can meet comes with a zero numerator (0/0 = NaN), and NaN
\* propagates through every arithmetic operation and comparison.
NaNq == <<0, 0>>
IsNaN(a) == a[2] = 0
One == <<1, 1>>

FAdd(a, b) == IF IsNaN(a) \/ IsNaN(b) THEN NaNq ELSE RAdd(a, b)
FSub(a, b) == IF IsNaN(a) \/ IsNaN(b) THEN NaNq ELSE RSub(a, b)
FMul(a, b) == IF IsNaN(a) \/ IsNaN(b) THEN NaNq ELSE RMul(a, b)
FDiv(a, b) == IF IsNaN(a) \/ IsNaN(b) \/ b = Zero THEN NaNq ELSE RDiv(a, b)
FNeg(a) == IF IsNaN(a) THEN NaNq ELSE <<-a[1], a[2]>>
\* np.abs
FAbs(a) == IF IsNaN(a) THEN NaNq ELSE RAbs(a)

RECURSIVE ISqrtIn(_, _, _)
\* the largest r in lo..hi with r*r <= n (lo*lo <= n)
ISqrtIn(n, lo, hi) ==
    IF lo >= hi THEN lo
    ELSE LET mid == (lo + hi + 1) \div 2
         IN  IF mid <= n \div mid THEN ISqrtIn(n, mid, hi)
             ELSE ISqrtIn(n, lo, mid - 1)

\* the square root of a perfect square n >= 0; the inputs of the model are
\* chosen so that every root taken is exact (no value exists otherwise)
ISqrt(n) ==
    LET r == ISqrtIn(n, 0, n)
    IN  IF r * r = n THEN r ELSE CHOOSE z \in {} : TRUE

\* np.sqrt of a non-negative rational or NaN
FSqrt(a) ==
    IF IsNaN(a) \/ a[1] < 0 THEN NaNq ELSE Rat(ISqrt(a[1]), ISqrt(a[2]))

\* --------------------------------------------------- the vector library
\* A four-momentum is [x, y, z, t]; a 3D vector is [x, y, z].  An array of
\* vectors is a sequence of them; every operation below acts on one element.
\* An operator named ...With takes the intermediate values of the operator
\* before it as arguments, so that each is written once.
Vec3(vx, vy, vz) == [x |-> vx, y |-> vy, z |-> vz]
Vec4(vx, vy, vz, vt) == [x |-> vx, y |-> vy, z |-> vz, t |-> vt]

\* a + b on four-momenta
V4Add(a, b) ==
    Vec4(FAdd(a.x, b.x), FAdd(a.y, b.y), FAdd(a.z, b.z), FAdd(a.t, b.t))

\* to_xyz(): the spatial part
ToXYZ(a) == Vec3(a.x, a.y, a.z)

\* vx^2 + vy^2 + vz^2
SumSq3(vx, vy, vz) == FAdd(FAdd(FMul(vx, vx), FMul(vy, vy)), FMul(vz, vz))

Dot3(a, b) == FAdd(FAdd(FMul(a.x, b.x), FMul(a.y, b.y)), FMul(a.z, b.z))

RMax(a, b) == IF RLe(a, b) THEN b ELSE a

\* the largest of |a.x|, |a.y|, |a.z|
MaxAbs3(a) == RMax(RMax(RAbs(a.x), RAbs(a.y)), RAbs(a.z))

\* m * sqrt((x/m)^2 + (y/m)^2 + (z/m)^2) for m the largest component
Mag3With(a, m) ==
    IF m = Zero THEN Zero
    ELSE RMul(m, FSqrt(SumSq3(RDiv(a.x, m), RDiv(a.y, m), RDiv(a.z, m))))

\* mag: sqrt(x^2 + y^2 + z^2), evaluated with the largest component
\* factored out so that the integers stay small
Mag3(a) ==
    IF IsNaN(a.x) \/ IsNaN(a.y) \/ IsNaN(a.z) THEN NaNq
    ELSE Mag3With(a, MaxAbs3(a))

\* scalar * vector
Scale3(c, a) == Vec3(FMul(c, a.x), FMul(c, a.y), FMul(c, a.z))
\* a - b on 3D vectors
Sub3(a, b) == Vec3(FSub(a.x, b.x), FSub(a.y, b.y), FSub(a.z, b.z))
\* a.cross(b)
Cross3(a, b) ==
    Vec3(FSub(FMul(a.y, b.z), FMul(a.z, b.y)),
         FSub(FMul(a.z, b.x), FMul(a.x, b.z)),
         FSub(FMul(a.x, b.y), FMul(a.y, b.x)))

\* np.nan_to_num(a, nan=0)
NanToZero(a) == IF IsNaN(a) THEN Zero ELSE a

Unit3With(a, m) ==
    Vec3(NanToZero(FDiv(a.x, m)), NanToZero(FDiv(a.y, m)),
         NanToZero(FDiv(a.z, m)))

\* unit(): the vector divided by its magnitude, 0/0 replaced by 0
Unit3(a) == Unit3With(a, Mag3(a))

\* rho: the length of the transverse part
Rho3(a) == FSqrt(FAdd(FMul(a.x, a.x), FMul(a.y, a.y)))

CosThetaWith(a, rho) ==
    IF IsNaN(rho) \/ IsNaN(a.z) THEN NaNq
    ELSE IF rho = Zero THEN (IF a.z[1] < 0 THEN <<-1, 1>> ELSE One)
    ELSE FDiv(a.z, Mag3(a))

SinThetaWith(a, rho) ==
    IF IsNaN(rho) \/ IsNaN(a.z) THEN NaNq
    ELSE IF rho = Zero THEN Zero
    ELSE FDiv(rho, Mag3(a))

\* np.cos(theta) and np.sin(theta) for theta = arctan2(rho, z), the polar
\* angle of a 3D vector; arctan2(0, 0) = 0.  The doubles nearest pi/2 and pi
\* have cosine 6.1e-17 and sine 1.2e-16: they are kept as 0 here, and
\* SignCosTheta keeps the sign of the former.
CosTheta(a) == CosThetaWith(a, Rho3(a))
SinTheta(a) == SinThetaWith(a, Rho3(a))

\* np.sign(np.cos(theta)): the cosine of a double is never exactly 0; at
\* z = 0 it is the small positive cosine of the double nearest pi/2
SignCosTheta(a) ==
    IF IsNaN(a.x) \/ IsNaN(a.y) \/ IsNaN(a.z) THEN NaNq
    ELSE IF a.z[1] < 0 THEN <<-1, 1>> ELSE One

\* gamma = 1 / sqrt(1 - beta^2)
Gamma(bx, by, bz) == FDiv(One, FSqrt(FSub(One, SumSq3(bx, by, bz))))

\* component vc of the boosted momentum, bc the velocity along it
BoostComponent(vc, bc, vt, gamma, bgam, bp) ==
    FAdd(vc, FAdd(FMul(FMul(bgam, bc), bp), FMul(FMul(gamma, bc), vt)))

BoostBeta3With(v, bx, by, bz, gamma, bgam, bp) ==
    Vec4(BoostComponent(v.x, bx, v.t, gamma, bgam, bp),
         BoostComponent(v.y, by, v.t, gamma, bgam, bp),
         BoostComponent(v.z, bz, v.t, gamma, bgam, bp),
         FMul(gamma, FAdd(v.t, bp)))

BoostBeta3Gamma(v, bx, by, bz, gamma) ==
    BoostBeta3With(v, bx, by, bz, gamma,
                   FDiv(FMul(gamma, gamma), FAdd(One, gamma)),
                   FAdd(FAdd(FMul(bx, v.x), FMul(by, v.y)), FMul(bz, v.z)))

\* v boosted by the velocity (bx, by, bz)
BoostBeta3(v, bx, by, bz) == BoostBeta3Gamma(v, bx, by, bz, Gamma(bx, by, bz))

\* v.boostCM_of(frame): v in the rest frame of `frame`, the boost by minus
\* the velocity p/E of `frame`
BoostCM_of(v, frame) ==
    BoostBeta3(v, FNeg(FDiv(frame.x, frame.t)),
                  FNeg(FDiv(frame.y, frame.t)),
                  FNeg(FDiv(frame.z, frame.t)))

\* np.maximum(-1, np.minimum(1, c))
Clip(c) ==
    IF IsNaN(c) THEN NaNq
    ELSE IF RLt(One, c) THEN One
    ELSE IF RLt(c, <<-1, 1>>) THEN <<-1, 1>>
    ELSE c

\* deltaangle without the division by the two magnitudes
CosDeltaAngleUnnormalised(a, b) == Dot3(a, b)

\* np.cos(a.deltaangle(b)): the cosine of the angle between the spatial
\* parts, dot/|a|/|b| clipped to [-1, 1]
CosDeltaAngle(a, b) == Clip(FDiv(FDiv(Dot3(a, b), Mag3(a)), Mag3(b)))

\* ----------------------------------------------------- get_spincorr_vars
\* the threshold and replacement value 1e-9 of the sine of the scattering angle
SinFloor == Rat(1, 1000000000)

\* the clamp keeping the sign of the sine: np.where(np.abs(s) < 1e-9,
\* np.copysign(1e-9, s), s)
ClampSinKeepingSign(sn) ==
    IF IsNaN(sn) THEN NaNq
    ELSE IF Abs(sn[1]) <= (SinFloor[1] * sn[2] - 1) \div SinFloor[2]
         THEN IF sn[1] < 0 THEN FNeg(SinFloor) ELSE SinFloor
    ELSE sn

\* np.where(np.abs(s) < 1e-9, 1e-9, s)
ClampSin(sn) ==
    IF IsNaN(sn) THEN NaNq
    ELSE IF Abs(sn[1]) <= (SinFloor[1] * sn[2] - 1) \div SinFloor[2]
         THEN SinFloor
    ELSE sn

\* the boosts with the lepton taken to the top's rest frame and the
\* antilepton to the antitop's
SpinBoostsCrossed(l, lbar, ttbar_frame, b_top, b_tbar) ==
    [ttbar_frame |-> ttbar_frame,
     boosted_tops |-> b_top,
     boosted_tbars |-> b_tbar,
     boosted_ls |-> BoostCM_of(BoostCM_of(l, ttbar_frame), b_top),
     boosted_lbars |-> BoostCM_of(BoostCM_of(lbar, ttbar_frame), b_tbar)]

\* lines 46-50: the lepton boosted into the ttbar frame and then into the
\* frame of the boosted antitop, the antilepton into the ttbar frame and
\* then into the frame of the boosted top
SpinBoostsWith(l, lbar, ttbar_frame, b_top, b_tbar) ==
    [ttbar_frame |-> ttbar_frame,
     boosted_tops |-> b_top,
     boosted_tbars |-> b_tbar,
     boosted_ls |-> BoostCM_of(BoostCM_of(l, ttbar_frame), b_tbar),
     boosted_lbars |-> BoostCM_of(BoostCM_of(lbar, ttbar_frame), b_top)]

\* lines 43-44: top and antitop boosted into the ttbar frame
SpinBoostsIn(top, tbar, l, lbar, ttbar_frame) ==
    SpinBoostsWith(l, lbar, ttbar_frame,
                   BoostCM_of(top, ttbar_frame), BoostCM_of(tbar, ttbar_frame))

\* lines 42-50 for one event: the ttbar frame and the four boosted momenta
SpinBoosts(top, tbar, l, lbar) ==
    SpinBoostsIn(top, tbar, l, lbar, V4Add(top, tbar))

\* p_axis = vector.obj(x=0, y=0, z=1)
p_axis == Vec3(Zero, Zero, One)

\* lines 60-61: r_axis and n_axis
SpinAxesWith(k_axis, cos_scat, sin_scat_angle, axis_coeff) ==
    [k_axis |-> k_axis,
     cos_scat |-> cos_scat,
     sin_scat_angle |-> sin_scat_angle,
     axis_coeff |-> axis_coeff,
     r_axis |-> Scale3(axis_coeff, Sub3(p_axis, Scale3(cos_scat, k_axis))),
     n_axis |-> Scale3(axis_coeff, Cross3(p_axis, k_axis))]

\* lines 54-58: scattering angle, clamped sine and axis_coeff
SpinAxesOf(k_axis) ==
    SpinAxesWith(k_axis, CosTheta(k_axis), ClampSin(SinTheta(k_axis)),
                 FDiv(SignCosTheta(k_axis), FAbs(ClampSin(SinTheta(k_axis)))))

\* lines 52-61 for one event: the k, r, n axes from the boosted top
SpinAxes(b_top) == SpinAxesOf(Unit3(ToXYZ(b_top)))

\* the keys without c_han
SpinKeysWithoutHan ==
    {"ll_cHel", "b1k", "b1r", "b1n", "b2k", "b2r", "b2n",
     "c_kk", "c_rr", "c_nn", "c_rk", "c_kn", "c_nr", "c_kr", "c_rn", "c_nk",
     "c_hel"}

\* the keys of ttbar_spincorr_vars (lines 65-85)
SpinKeys ==
    {"ll_cHel", "b1k", "b1r", "b1n", "b2k", "b2r", "b2n",
     "c_kk", "c_rr", "c_nn", "c_rk", "c_kn", "c_nr", "c_kr", "c_rn", "c_nk",
     "c_han", "c_hel"}

\* the nine products with the two analyzers exchanged (b2x * b1y)
SpinProductsSwapped(b1, b2) ==
    [c_kk |-> FMul(b2.k, b1.k), c_rr |-> FMul(b2.r, b1.r),
     c_nn |-> FMul(b2.n, b1.n), c_rk |-> FMul(b2.r, b1.k),
     c_kn |-> FMul(b2.k, b1.n), c_nr |-> FMul(b2.n, b1.r),
     c_kr |-> FMul(b2.k, b1.r), c_rn |-> FMul(b2.r, b1.n),
     c_nk |-> FMul(b2.n, b1.k)]

\* lines 74-82: the nine products of a b1 analyzer and a b2 analyzer
SpinProducts(b1, b2) ==
    [c_kk |-> FMul(b1.k, b2.k), c_rr |-> FMul(b1.r, b2.r),
     c_nn |-> FMul(b1.n, b2.n), c_rk |-> FMul(b1.r, b2.k),
     c_kn |-> FMul(b1.k, b2.n), c_nr |-> FMul(b1.n, b2.r),
     c_kr |-> FMul(b1.k, b2.r), c_rn |-> FMul(b1.r, b2.n),
     c_nk |-> FMul(b1.n, b2.k)]

\* c_han and c_hel exchanged
SpinCombinationsSwapped(c) ==
    [c_han |-> FSub(FSub(FNeg(c.c_kk), c.c_rr), c.c_nn),
     c_hel |-> FSub(FSub(c.c_kk, c.c_rr), c.c_nn)]

\* lines 84-85: c_han and c_hel from the diagonal products
SpinCombinations(c) ==
    [c_han |-> FSub(FSub(c.c_kk, c.c_rr), c.c_nn),
     c_hel |-> FSub(FSub(FNeg(c.c_kk), c.c_rr), c.c_nn)]

\* -1 * axis
Minus3(a) == Scale3(<<-1, 1>>, a)

\* the analyzers with the lepton measured against +k, +r, +n as well
SpinAnalyzersSameSide(b, ax) ==
    [ll_cHel |-> CosDeltaAngle(b.boosted_lbars, b.boosted_ls),
     b1 |-> [k |-> CosDeltaAngle(b.boosted_lbars, ax.k_axis),
             r |-> CosDeltaAngle(b.boosted_lbars, ax.r_axis),
             n |-> CosDeltaAngle(b.boosted_lbars, ax.n_axis)],
     b2 |-> [k |-> CosDeltaAngle(b.boosted_ls, ax.k_axis),
             r |-> CosDeltaAngle(b.boosted_ls, ax.r_axis),
             n |-> CosDeltaAngle(b.boosted_ls, ax.n_axis)]]

\* lines 65-72: ll_cHel and the six single-spin analyzers
SpinAnalyzers(b, ax) ==
    [ll_cHel |-> CosDeltaAngle(b.boosted_lbars, b.boosted_ls),
     b1 |-> [k |-> CosDeltaAngle(b.boosted_lbars, ax.k_axis),
             r |-> CosDeltaAngle(b.boosted_lbars, ax.r_axis),
             n |-> CosDeltaAngle(b.boosted_lbars, ax.n_axis)],
     b2 |-> [k |-> CosDeltaAngle(b.boosted_ls, Minus3(ax.k_axis)),
             r |-> CosDeltaAngle(b.boosted_ls, Minus3(ax.r_axis)),
             n |-> CosDeltaAngle(b.boosted_ls, Minus3(ax.n_axis))]]

\* the dict from the analyzers a, the products c and the combinations h
SpinVarsWith(a, c, h) ==
    [key \in SpinKeys |->
        CASE key = "ll_cHel" -> a.ll_cHel
          [] key = "b1k" -> a.b1.k
          [] key = "b1r" -> a.b1.r
          [] key = "b1n" -> a.b1.n
          [] key = "b2k" -> a.b2.k
          [] key = "b2r" -> a.b2.r
          [] key = "b2n" -> a.b2.n
          [] key = "c_han" -> h.c_han
          [] key = "c_hel" -> h.c_hel
          [] OTHER -> c[key]]

SpinVarsFrom(a, c) == SpinVarsWith(a, c, SpinCombinations(c))

SpinVarsOf(a) == SpinVarsFrom(a, SpinProducts(a.b1, a.b2))

\* lines 63-85 for one event: the entries written to ttbar_spincorr_vars
SpinVars(b, ax) == SpinVarsOf(SpinAnalyzers(b, ax))

\* --------------------------------------------------------------- inputs
\* one event: binning value x, observed value y, weight w
Event(xn, xd, yv, wv) ==
    [x |-> Rat(xn, xd), y |-> Int2Rat(yv), w |-> Int2Rat(wv)]

\* the events a batch is drawn from: binning values 1/2, 1, 3/2; observed
\* values of both signs; a negative, a positive and a zero weight
Events == {Event(1, 2, 2, -1), Event(1, 1, -1, 1), Event(3, 2, 2, 0)}

EdgeVals == {Int2Rat(0), Int2Rat(1), Int2Rat(2)}

\* explicit ascending (possibly repeated) bin edges
EdgeSeqs ==
    UNION {{s \in [1..k -> EdgeVals] :
               \A i \in 1..(k - 1) : RLe(s[i], s[i + 1])} : k \in 1..(MaxBins + 1)}

\* a binSpec: an integer count, or edges held in a numpy array or (islist) in
\* a plain Python list
BinSpecs ==
    {[isint |-> TRUE, count |-> c, edges |-> <<>>, islist |-> FALSE] :
        c \in 0..MaxBins}
    \cup {[isint |-> FALSE, count |-> 0, edges |-> s, islist |-> FALSE] :
             s \in EdgeSeqs}

\* the same edges given as plain Python lists, as BIN_EDGES stores them
ListBinSpecs ==
    {[isint |-> FALSE, count |-> 0, edges |-> s, islist |-> TRUE] :
        s \in EdgeSeqs}

\* the scenario of the specification: values 10..50 binned on themselves,
\* unit weights, bins = 1
ScenarioValues == [i \in 1..5 |-> Int2Rat(10 * i)]
ScenarioWeights == [i \in 1..5 |-> Int2Rat(1)]
ScenarioBins == [isint |-> TRUE, count |-> 1, edges |-> <<>>, islist |-> FALSE]

\* --------------------------------------------- inputs of get_spincorr_vars
\* one event: the four-momenta (px, py, pz, E) of top, antitop, lepton and
\* antilepton
P4(px, py, pz, e) == Vec4(Int2Rat(px), Int2Rat(py), Int2Rat(pz), Int2Rat(e))
SpinEvent(t, tb, l, lb) == [top |-> t, tbar |-> tb, l |-> l, lbar |-> lb]

\* the events a batch is drawn from (tops of mass 80 and momentum 60 in the
\* ttbar frame, massless leptons):
\*  - the ttbar system moving along the beam, top at polar angle cos = 4/5
\*  - the ttbar system at rest, top backward (cos = -3/5)
\*  - the top out of the x-z plane (cos = 4/5)
\*  - the top exactly perpendicular to the beam
\*  - the top exactly along the beam
\*  - top and antitop both at rest
SpinEvents ==
    {SpinEvent(P4(36, 0, 135, 161), P4(-36, 0, 15, 89),
               P4(4, 0, 3, 5), P4(0, 4, 3, 5)),
     SpinEvent(P4(48, 0, -36, 100), P4(-48, 0, 36, 100),
               P4(0, 0, 4, 4), P4(0, 4, 0, 4)),
     SpinEvent(P4(0, 36, 48, 100), P4(0, -36, -48, 100),
               P4(4, 0, 3, 5), P4(0, 0, -2, 2)),
     SpinEvent(P4(60, 0, 0, 100), P4(-60, 0, 0, 100),
               P4(0, 0, 4, 4), P4(0, 4, 0, 4)),
     SpinEvent(P4(0, 0, 60, 100), P4(0, 0, -60, 100),
               P4(4, 0, 0, 4), P4(0, 4, 0, 4)),
     SpinEvent(P4(0, 0, 0, 80), P4(0, 0, 0, 80),
               P4(4, 0, 0, 4), P4(0, 4, 0, 4))}

\* largest number of events passed to get_spincorr_vars
MaxSpinN == 3

\* ---------------------------------------------------------------- state
VARIABLES
    x,                 \* binning values passed to ComputeStats
    y,                 \* observed values
    weight,            \* event weights
    bins,              \* binSpec: an integer count or an array of edges
    pc,                \* "idle", "call", "done" (returned) or "raised"
    binned_residuals,  \* local of ComputeStats: the dict from SplitInBins
    bin_edges,         \* local of ComputeStats: the edges from SplitInBins
    result,            \* the returned dict
    tops,              \* get_spincorr_vars arguments: arrays of four-momenta
    tbars,
    ls,
    lbars,
    spc,               \* "idle", "call" or "done" (get_spincorr_vars returned)
    spin_boosts,       \* locals of get_spincorr_vars, per event: ttbar_frame,
                       \* boosted_tops, boosted_tbars, boosted_ls, boosted_lbars
    spin_axes,         \* locals, per event: k_axis, r_axis, n_axis, ...
    ttbar_spincorr_vars, \* the returned dict
    aliases,           \* pairs <<object, argument>>: the array `object` of the
                       \* call shares its buffer with the caller's `argument`
    sin_before,        \* sin_scat_angle before line 57 of get_spincorr_vars
    sin_after,         \* sin_scat_angle after line 57
    cpc,               \* "idle", "call" or "done" (line 57 has run)
    fill_hists,        \* hist_1D arguments: the arrays of the dict, in order
    nofill_hists,
    hist_edges,        \* the argument bin_edges of hist_1D
    ufof,
    era,
    fill_counts,       \* for every filled histogram drawn: entries per bin
    nofill_counts,     \* the same for the histograms drawn as outlines
    hpc,               \* "idle", "call", "done", "returned" (nothing drawn)
                       \* or "raised"
    process_eras,      \* getAllData argument, as a set of era names
    files,             \* os.listdir of a channel directory: the files there
    gen_top_tot,       \* the dicts getAllData builds and returns
    mlb_top_tot,
    tf_top_tot,
    weight_tot,
    filter_dilepton_tot,
    filter_mlb_tot,
    lpc                \* "idle", "call", "done" or "raised"

statsvars == <<x, y, weight, bins, pc, binned_residuals, bin_edges, result>>

spinvars ==
    <<tops, tbars, ls, lbars, spc, spin_boosts, spin_axes, ttbar_spincorr_vars>>

clampvars == <<sin_before, sin_after, cpc>>

histvars ==
    <<fill_hists, nofill_hists, hist_edges, ufof, era, fill_counts,
      nofill_counts, hpc>>

loadvars ==
    <<process_eras, files, gen_top_tot, mlb_top_tot, tf_top_tot, weight_tot,
      filter_dilepton_tot, filter_mlb_tot, lpc>>

othervars == <<clampvars, histvars, loadvars>>

vars == <<statsvars, spinvars, aliases, othervars>>

EmptyResult == [key \in ResultKeys |-> <<>>]

\* get_spincorr_vars is not being called
SpinIdle ==
    /\ tops = <<>> /\ tbars = <<>> /\ ls = <<>> /\ lbars = <<>>
    /\ spc = "idle"
    /\ spin_boosts = <<>>
    /\ spin_axes = <<>>
    /\ ttbar_spincorr_vars = <<>>

\* line 57 is not being run on its own
ClampIdle == sin_before = NaNq /\ sin_after = NaNq /\ cpc = "idle"

\* hist_1D is not being called
HistIdle ==
    /\ fill_hists = <<>> /\ nofill_hists = <<>>
    /\ hist_edges = <<>>
    /\ ufof = FALSE
    /\ era = ""
    /\ fill_counts = <<>> /\ nofill_counts = <<>>
    /\ hpc = "idle"

\* getAllData is not being called
LoadIdle ==
    /\ process_eras = {}
    /\ files = <<>>
    /\ gen_top_tot = <<>> /\ mlb_top_tot = <<>> /\ tf_top_tot = <<>>
    /\ weight_tot = <<>> /\ filter_dilepton_tot = <<>> /\ filter_mlb_tot = <<>>
    /\ lpc = "idle"

\* nothing but ComputeStats and get_spincorr_vars is being run
OthersIdle == ClampIdle /\ HistIdle /\ LoadIdle

\* ComputeStats is not being called
StatsIdle ==
    /\ x = <<>> /\ y = <<>> /\ weight = <<>>
    /\ bins = [isint |-> TRUE, count |-> 0, edges |-> <<>>, islist |-> FALSE]
    /\ pc = "idle"
    /\ binned_residuals = <<>>
    /\ bin_edges = <<>>
    /\ result = EmptyResult

InitBatch ==
    \E n \in 0..MaxN : \E ev \in [1..n -> Events] : \E b \in BinSpecs :
        /\ x = [i \in 1..n |-> ev[i].x]
        /\ y = [i \in 1..n |-> ev[i].y]
        /\ weight = [i \in 1..n |-> ev[i].w]
        /\ bins = b

InitScenario ==
    /\ x = ScenarioValues
    /\ y = ScenarioValues
    /\ weight = ScenarioWeights
    /\ bins = ScenarioBins

Init ==
    /\ InitBatch \/ InitScenario
    /\ pc = "call"
    /\ binned_residuals = <<>>
    /\ bin_edges = <<>>
    /\ result = EmptyResult
    /\ SpinIdle
    /\ aliases = {}
    /\ OthersIdle

\* the arrays of a returned ComputeStats call that are the caller's own:
\* SplitInBins hands an array of edges back as it got it (`return
\* binned_data, bins`); an integer `bins` is replaced by a new linspace, the
\* bin contents are copies made by boolean indexing, and the result arrays
\* are built by np.array from lists
StatsAliases(b) == IF b.isint THEN {} ELSE {<<"bin_edges", "bins">>}

\* ComputeStats sorting the caller's y in place on its way
ComputeStatsReturnsSortingInPlace ==
    /\ pc = "call"
    /\ ~SplitRaises(y, x, weight, bins)
    /\ LET s == SplitInBins(y, x, weight, bins)
       IN  /\ binned_residuals' = s.binned_data
           /\ bin_edges' = s.bins
           /\ result' = StatsOf(s.binned_data)
    /\ pc' = "done"
    /\ y' = Sort(y)
    /\ aliases' = aliases \cup StatsAliases(bins)
    /\ UNCHANGED <<x, weight, bins>>
    /\ UNCHANGED <<spinvars, othervars>>

\* ComputeStats(x, y, weight, bins) returning its result
ComputeStatsReturns ==
    /\ pc = "call"
    /\ ~SplitRaises(y, x, weight, bins)
    /\ LET s == SplitInBins(y, x, weight, bins)
       IN  /\ binned_residuals' = s.binned_data
           /\ bin_edges' = s.bins
           /\ result' = StatsOf(s.binned_data)
    /\ pc' = "done"
    /\ aliases' = aliases \cup StatsAliases(bins)
    /\ UNCHANGED <<x, y, weight, bins>>
    /\ UNCHANGED <<spinvars, othervars>>

\* ComputeStats(x, y, weight, bins) leaving with the exception of SplitInBins
ComputeStatsRaises ==
    /\ pc = "call"
    /\ SplitRaises(y, x, weight, bins)
    /\ pc' = "raised"
    /\ UNCHANGED <<x, y, weight, bins, binned_residuals, bin_edges, result>>
    /\ UNCHANGED <<spinvars, aliases, othervars>>

Next == ComputeStatsReturns \/ ComputeStatsRaises

Spec == Init /\ [][Next]_vars

\* ------------------------------------- ComputeStats on batches in any order
\* an integer count, one bin holding every event, and two bins
OrderBinSpecs ==
    {[isint |-> TRUE, count |-> 2, edges |-> <<>>, islist |-> FALSE],
     [isint |-> FALSE, count |-> 0, edges |-> <<Int2Rat(0), Int2Rat(2)>>,
      islist |-> FALSE],
     [isint |-> FALSE, count |-> 0,
      edges |-> <<Int2Rat(0), Int2Rat(1), Int2Rat(2)>>, islist |-> FALSE]}

\* every batch of up to MaxN events in every order, on those bins
InitOrder ==
    /\ InitBatch
    /\ bins \in OrderBinSpecs
    /\ pc = "call"
    /\ binned_residuals = <<>>
    /\ bin_edges = <<>>
    /\ result = EmptyResult
    /\ SpinIdle
    /\ aliases = {}
    /\ OthersIdle

SpecOrder == InitOrder /\ [][Next]_vars

\* ----------------------------------------- ComputeStats on unaligned arrays
\* largest length of x, y and weight when they are chosen independently
MaxLen == 2

ShapeXVals == {Rat(1, 2), Int2Rat(1), Rat(3, 2)}

\* x, y and weight of independent lengths
InitShapes ==
    \E nx, ny, nw \in 0..MaxLen : \E xs \in [1..nx -> ShapeXVals] :
    \E b \in BinSpecs :
        /\ x = xs
        /\ y = [i \in 1..ny |-> Int2Rat(2)]
        /\ weight = [i \in 1..nw |-> Int2Rat(1)]
        /\ bins = b
        /\ pc = "call"
        /\ binned_residuals = <<>>
        /\ bin_edges = <<>>
        /\ result = EmptyResult
        /\ SpinIdle
        /\ aliases = {}
        /\ OthersIdle

SpecShapes == InitShapes /\ [][Next]_vars

\* ------------------------------------ ComputeStats on a Python list of edges
\* aligned batches of up to MaxLen events with `bins` a list or an array
InitList ==
    \E n \in 0..MaxLen : \E ev \in [1..n -> Events] :
    \E b \in ListBinSpecs \cup BinSpecs :
        /\ x = [i \in 1..n |-> ev[i].x]
        /\ y = [i \in 1..n |-> ev[i].y]
        /\ weight = [i \in 1..n |-> ev[i].w]
        /\ bins = b
        /\ pc = "call"
        /\ binned_residuals = <<>>
        /\ bin_edges = <<>>
        /\ result = EmptyResult
        /\ SpinIdle
        /\ aliases = {}
        /\ OthersIdle

SpecList == InitList /\ [][Next]_vars

\* ------------------------------------------------- get_spincorr_vars calls
InitSpin ==
    /\ \E n \in 0..MaxSpinN : \E ev \in [1..n -> SpinEvents] :
        /\ tops = [i \in 1..n |-> ev[i].top]
        /\ tbars = [i \in 1..n |-> ev[i].tbar]
        /\ ls = [i \in 1..n |-> ev[i].l]
        /\ lbars = [i \in 1..n |-> ev[i].lbar]
    /\ spc = "call"
    /\ spin_boosts = <<>>
    /\ spin_axes = <<>>
    /\ ttbar_spincorr_vars = <<>>
    /\ StatsIdle
    /\ aliases = {}
    /\ OthersIdle

\* lines 42-85 for every event of the pool: the boosted momenta, the axes
\* and the 18 returned values
SpinOfBoostsWith(b, ax) == [boosts |-> b, axes |-> ax, out |-> SpinVars(b, ax)]

SpinOfBoosts(b) == SpinOfBoostsWith(b, SpinAxes(b.boosted_tops))

SpinOfEvent ==
    [e \in SpinEvents |-> SpinOfBoosts(SpinBoosts(e.top, e.tbar, e.l, e.lbar))]

\* the locals and the returned dict from the per-event values v
SpinStored(v) ==
    /\ spin_boosts' = [i \in DOMAIN v |-> v[i].boosts]
    /\ spin_axes' = [i \in DOMAIN v |-> v[i].axes]
    /\ ttbar_spincorr_vars' =
           [key \in SpinKeys |-> [i \in DOMAIN v |-> v[i].out[key]]]

\* get_spincorr_vars(tops, tbars, ls, lbars), elementwise over the arrays
GetSpincorrVars ==
    /\ spc = "call"
    /\ SpinStored([i \in 1..Len(tops) |->
                      SpinOfEvent[SpinEvent(tops[i], tbars[i], ls[i], lbars[i])]])
    /\ spc' = "done"
    /\ UNCHANGED <<tops, tbars, ls, lbars>>
    /\ UNCHANGED <<statsvars, aliases, othervars>>

NextSpin == GetSpincorrVars

SpecSpin == InitSpin /\ [][NextSpin]_vars

\* -------------------------------------------- calls of either function
\* a ComputeStats call on a batch of up to MaxLen events and a
\* get_spincorr_vars call on at most one event, both about to run
InitCalls ==
    /\ \E n \in 0..MaxLen : \E ev \in [1..n -> Events] :
       \E b \in ListBinSpecs \cup BinSpecs :
           /\ x = [i \in 1..n |-> ev[i].x]
           /\ y = [i \in 1..n |-> ev[i].y]
           /\ weight = [i \in 1..n |-> ev[i].w]
           /\ bins = b
    /\ pc = "call"
    /\ binned_residuals = <<>>
    /\ bin_edges = <<>>
    /\ result = EmptyResult
    /\ \E n \in 0..1 : \E ev \in [1..n -> SpinEvents] :
           /\ tops = [i \in 1..n |-> ev[i].top]
           /\ tbars = [i \in 1..n |-> ev[i].tbar]
           /\ ls = [i \in 1..n |-> ev[i].l]
           /\ lbars = [i \in 1..n |-> ev[i].lbar]
    /\ spc = "call"
    /\ spin_boosts = <<>>
    /\ spin_axes = <<>>
    /\ ttbar_spincorr_vars = <<>>
    /\ aliases = {}
    /\ OthersIdle

NextCalls == ComputeStatsReturns \/ ComputeStatsRaises \/ GetSpincorrVars

SpecCalls == InitCalls /\ [][NextCalls]_vars

\* --------------------------------- line 57 of get_spincorr_vars on its own
\* largest numerator of a sine handed to line 57
MaxSinNum == 4

\* denominators: units, and values around the threshold 1e-9
SinDens == {1, 2, 5, 100000000, 500000000, 1000000000, 2000000000, 2147483647}

\* the sines line 57 is run on: both signs, zero, magnitudes below, at and
\* above 1e-9, and NaN
SinValues ==
    {Rat(n, d) : n \in (-MaxSinNum)..MaxSinNum, d \in SinDens} \cup {NaNq}

InitClamp ==
    /\ sin_before \in SinValues
    /\ sin_after = NaNq
    /\ cpc = "call"
    /\ StatsIdle
    /\ SpinIdle
    /\ aliases = {}
    /\ HistIdle
    /\ LoadIdle

\* sin_scat_angle = np.where(np.abs(sin_scat_angle) < 1e-9, 1e-9,
\*                           sin_scat_angle)
ClampSinScatAngle ==
    /\ cpc = "call"
    /\ sin_after' = ClampSin(sin_before)
    /\ cpc' = "done"
    /\ UNCHANGED <<sin_before, statsvars, spinvars, aliases, histvars, loadvars>>

NextClamp == ClampSinScatAngle

SpecClamp == InitClamp /\ [][NextClamp]_vars

\* ------------------------------------------------------------------ hist_1D
\* largest number of events of a plotted distribution
MaxHistN == 2

\* an x < y that is False when either is NaN
FLt(a, b) == ~IsNaN(a) /\ ~IsNaN(b) /\ RLt(a, b)

\* lines 155-156: the centres of the first and of the last bin
uf_value_replace(e) == RAdd(e[1], RDiv(RSub(e[2], e[1]), Int2Rat(2)))
of_value_replace(e) ==
    RSub(e[Len(e)], RDiv(RSub(e[Len(e)], e[Len(e) - 1]), Int2Rat(2)))

\* value_tmp after lines 164-167 (182-185): with ufof every value below the
\* first edge becomes uf_value_replace, every value above the last edge
\* of_value_replace
ReplaceUfOf(value, e, flag) ==
    [j \in 1..Len(value) |->
        IF flag /\ FLt(value[j], e[1]) THEN uf_value_replace(e)
        ELSE IF flag /\ FLt(e[Len(e)], value[j]) THEN of_value_replace(e)
        ELSE value[j]]

\* v falls into bin i of np.histogram(..., bins=e): [e[i], e[i+1]), the last
\* bin closed on the right; NaN falls into no bin
HistBinHolds(v, e, i) ==
    /\ ~IsNaN(v)
    /\ RLe(e[i], v)
    /\ RLt(v, e[i + 1]) \/ (i = Len(e) - 1 /\ v = e[i + 1])

\* counts of ax.hist(value_tmp, bins=bin_edges): the entries per bin, before
\* the normalisation of density=True
HistCounts(value_tmp, e) ==
    [i \in 1..(Len(e) - 1) |->
        Cardinality({j \in 1..Len(value_tmp) : HistBinHolds(value_tmp[j], e, i)})]

\* lines 163-176 (181-196) for every array of a dict
HistCountsOfAll(hists, e, flag) ==
    [k \in 1..Len(hists) |-> HistCounts(ReplaceUfOf(hists[k], e, flag), e)]

\* the values plotted: below, inside (on an edge and between edges) and
\* above the edges, and NaN
HistVals == {Int2Rat(-1), Int2Rat(0), Rat(1, 2), Int2Rat(2), Int2Rat(3), NaNq}

HistArrays == UNION {[1..n -> HistVals] : n \in 0..MaxHistN}

\* the arrays of the second dict
OutlineArrays == UNION {[1..n -> {Int2Rat(-1), Int2Rat(3)}] : n \in 0..MaxHistN}

\* strictly ascending bin edges
HistEdges ==
    {<<Int2Rat(0), Int2Rat(1)>>, <<Int2Rat(0), Int2Rat(2)>>,
     <<Int2Rat(1), Int2Rat(2)>>, <<Int2Rat(0), Int2Rat(1), Int2Rat(2)>>}

\* hist_1D(fill_hists, nofill_hists, xlabel, bin_edges, era=..., ufof=...)
\* with weights=None; fill_hists holds one array, nofill_hists at most one
InitHist ==
    /\ \E a \in HistArrays : fill_hists = <<a>>
    /\ nofill_hists \in {<<>>} \cup {<<b>> : b \in OutlineArrays}
    /\ hist_edges \in HistEdges
    /\ ufof \in BOOLEAN
    /\ era \in {"2017", "2011"}
    /\ fill_counts = <<>> /\ nofill_counts = <<>>
    /\ hpc = "call"
    /\ StatsIdle
    /\ SpinIdle
    /\ aliases = {}
    /\ ClampIdle
    /\ LoadIdle

\* lines 137-144: era names a Run 2 or Run 3 year
EraKnown(e) == e \in {"2017"}

\* lines 126-134: with weights=None every histogram gets np.ones of the
\* shape of the first filled one; ax.hist raises ValueError for an array of
\* another shape
HistWeightsFit ==
    \A k \in 1..Len(nofill_hists) : Len(nofill_hists[k]) = Len(fill_hists[1])

\* hist_1D drawing every histogram and saving the plot
Hist1DPlots ==
    /\ hpc = "call"
    /\ EraKnown(era)
    /\ HistWeightsFit
    /\ fill_counts' = HistCountsOfAll(fill_hists, hist_edges, ufof)
    /\ nofill_counts' = HistCountsOfAll(nofill_hists, hist_edges, ufof)
    /\ hpc' = "done"
    /\ UNCHANGED <<fill_hists, nofill_hists, hist_edges, ufof, era>>
    /\ UNCHANGED <<statsvars, spinvars, aliases, clampvars, loadvars>>

\* lines 142-144: "Error: not Run 2 or Run 3 era", nothing is drawn
Hist1DReturnsEarly ==
    /\ hpc = "call"
    /\ ~EraKnown(era)
    /\ hpc' = "returned"
    /\ UNCHANGED <<fill_hists, nofill_hists, hist_edges, ufof, era,
                   fill_counts, nofill_counts>>
    /\ UNCHANGED <<statsvars, spinvars, aliases, clampvars, loadvars>>

\* ax.hist raising on weights whose shape is not that of the values; the
\* filled histograms are drawn before
Hist1DRaises ==
    /\ hpc = "call"
    /\ EraKnown(era)
    /\ ~HistWeightsFit
    /\ fill_counts' = HistCountsOfAll(fill_hists, hist_edges, ufof)
    /\ hpc' = "raised"
    /\ UNCHANGED <<fill_hists, nofill_hists, hist_edges, ufof, era,
                   nofill_counts>>
    /\ UNCHANGED <<statsvars, spinvars, aliases, clampvars, loadvars>>

NextHist == Hist1DPlots \/ Hist1DReturnsEarly \/ Hist1DRaises

SpecHist == InitHist /\ [][NextHist]_vars

\* --------------------------------------------------------------- getAllData
\* largest number of events of a root file
MaxRows == 1

\* the keys of `datasets` (lines 27-32) and of `tf_results` (lines 34-38)
datasets == {"2016preVFP", "2016postVFP", "2017", "2018"}
tf_results == {"2016preVFP", "2016postVFP", "2018"}

\* channels = ["ee", "emu", "mumu"]
channels == <<"ee", "emu", "mumu">>

\* a root file of a channel directory: whether its name contains
\* "ttbarsignal" and "boundstate", and for each of its events the entry of
\* the branch "mask" of the transformer file of the same name
RootFile(tt, bs, m) == [ttbarsignal |-> tt, boundstate |-> bs, mask |-> m]

\* the files every directory holds besides its ttbarsignal files
OtherFiles ==
    <<RootFile(TRUE, TRUE, <<TRUE>>), RootFile(FALSE, FALSE, <<TRUE>>)>>

SignalFiles ==
    {RootFile(TRUE, FALSE, m) : m \in UNION {[1..n -> BOOLEAN] : n \in 0..MaxRows}}

\* the arguments getAllData is called with
ProcessEras ==
    {{}, {"2017"}, {"2018"}, {"2016preVFP", "2018"}, {"2017", "2018"}, {"2022"}}

EmptyDicts ==
    /\ gen_top_tot = <<>> /\ mlb_top_tot = <<>> /\ tf_top_tot = <<>>
    /\ weight_tot = <<>> /\ filter_dilepton_tot = <<>> /\ filter_mlb_tot = <<>>

\* getAllData(process_eras) on directories that hold, in every era, up to two
\* ttbarsignal files for ee and up to one for emu and mumu
InitLoad ==
    /\ process_eras \in ProcessEras
    /\ \E ee \in UNION {[1..n -> SignalFiles] : n \in 0..2} :
       \E emu, mumu \in UNION {[1..n -> SignalFiles] : n \in 0..1} :
           files = [ch \in {"ee", "emu", "mumu"} |->
                       CASE ch = "ee" -> ee \o OtherFiles
                         [] ch = "emu" -> OtherFiles \o emu
                         [] ch = "mumu" -> mumu \o OtherFiles]
    /\ EmptyDicts
    /\ lpc = "call"
    /\ StatsIdle
    /\ SpinIdle
    /\ aliases = {}
    /\ ClampIdle
    /\ HistIdle

\* line 145 for one channel: the positions of the files kept, in listing order
ttbar_files(ch) ==
    SelectSeq([k \in 1..Len(files[ch]) |-> k],
              LAMBDA k : files[ch][k].ttbarsignal /\ ~files[ch][k].boundstate)

\* one row of the array `name` read from a file: the event it belongs to
Row(name, e, ch, k, r) ==
    [array |-> name, era |-> e, channel |-> ch, file |-> k, row |-> r]

\* what the loop of lines 146-162 appends to the list of `name` for one file
AppendedFor(name, e, ch, k) ==
    IF name = "filter_dilepton"
    THEN IF e # "2017" THEN files[ch][k].mask
         ELSE [r \in 1..Len(files[ch][k].mask) |-> TRUE]
    ELSE [r \in 1..Len(files[ch][k].mask) |-> Row(name, e, ch, k, r)]

\* the list of `name` for era e after the loops of lines 135-162
AppendedIn(name, e, ch) ==
    [j \in 1..Len(ttbar_files(ch)) |-> AppendedFor(name, e, ch, ttbar_files(ch)[j])]

Appended(name, e) ==
    IF e \notin datasets \/ (name = "tf_top" /\ e = "2017") THEN <<>>
    ELSE AppendedIn(name, e, channels[1]) \o AppendedIn(name, e, channels[2])
             \o AppendedIn(name, e, channels[3])

RECURSIVE Concatenate(_)
\* np.concatenate of a non-empty list of arrays
Concatenate(list) ==
    IF list = <<>> THEN <<>> ELSE Head(list) \o Concatenate(Tail(list))

\* the first rows of a, as many as m has True entries
MaskSelectLeading(a, m) ==
    [j \in 1..Cardinality({i \in 1..Len(m) : m[i]}) |-> a[j]]

\* a[m] for a boolean array m of the length of a
MaskSelect(a, m) == Take(a, SelectSeq([i \in 1..Len(a) |-> i], LAMBDA i : m[i]))

\* lines 167-184: the concatenated list of `name` with the dilepton mask of
\* the era applied
Filtered(name, e) ==
    MaskSelect(Concatenate(Appended(name, e)),
               Concatenate(Appended("filter_dilepton", e)))

\* np.concatenate raises ValueError on an empty list: at line 165 for an era
\* without any ttbarsignal file or without a directory in `datasets`, at
\* line 176 for the era '2017', whose tf_top_tot list is never appended to
ConcatenateRaises ==
    \E e \in process_eras :
        Appended("filter_dilepton", e) = <<>> \/ Appended("tf_top", e) = <<>>

\* getFilterPerFile returns the branch tree["mask"], not its array: what
\* np.concatenate makes of a list of branches is left to uproot and numpy,
\* either the entries of the branches or an exception
HoldsBranches == \E e \in process_eras : e \in tf_results

\* getAllData(process_eras) returning its five dicts
GetAllDataReturns ==
    /\ lpc = "call"
    /\ ~ConcatenateRaises
    /\ gen_top_tot' = [e \in process_eras |-> Filtered("gen_top", e)]
    /\ mlb_top_tot' = [e \in process_eras |-> Filtered("mlb_top", e)]
    /\ tf_top_tot' = [e \in process_eras |-> Concatenate(Appended("tf_top", e))]
    /\ weight_tot' = [e \in process_eras |-> Filtered("weight", e)]
    /\ filter_dilepton_tot' =
           [e \in process_eras |-> Concatenate(Appended("filter_dilepton", e))]
    /\ filter_mlb_tot' = [e \in process_eras |-> Filtered("mlb_filter", e)]
    /\ lpc' = "done"
    /\ UNCHANGED <<process_eras, files>>
    /\ UNCHANGED <<statsvars, spinvars, aliases, clampvars, histvars>>

\* getAllData(process_eras) leaving with an exception of lines 164-184
GetAllDataRaises ==
    /\ lpc = "call"
    /\ ConcatenateRaises \/ HoldsBranches
    /\ lpc' = "raised"
    /\ UNCHANGED <<process_eras, files, gen_top_tot, mlb_top_tot, tf_top_tot,
                   weight_tot, filter_dilepton_tot, filter_mlb_tot>>
    /\ UNCHANGED <<statsvars, spinvars, aliases, clampvars, histvars>>

NextLoad == GetAllDataReturns \/ GetAllDataRaises

SpecLoad == InitLoad /\ [][NextLoad]_vars

\* ------------------------------------------------- vocabulary of the claims
Range(s) == {s[i] : i \in 1..Len(s)}

\* number of bins the edges in use delimit
NumBins == IF Len(bin_edges) = 0 THEN 0 ELSE Len(bin_edges) - 1

\* event e lies in the half-open interval of bin i
InBin(e, i) == RLe(bin_edges[i], x[e]) /\ RLt(x[e], bin_edges[i + 1])

\* the events of bin i
Members(i) == {e \in 1..Len(x) : InBin(e, i)}

\* the midpoint of bin i
Mid(i) == RDiv(RAdd(bin_edges[i], bin_edges[i + 1]), Int2Rat(2))

\* the entries of the split that hold event e
EntriesOf(e) ==
    {j \in 1..Len(binned_residuals) : e \in Range(binned_residuals[j].mask)}

\* event e is held by the entry keyed m
InEntry(e, m) == \E j \in EntriesOf(e) : binned_residuals[j].key = m

StrictlyAscending(s) == \A i \in 1..(Len(s) - 1) : RLt(s[i], s[i + 1])

RECURSIVE SetSum(_, _)
\* the sum of f over the finite set S
SetSum(f, S) ==
    IF S = {} THEN Zero
    ELSE LET e == CHOOSE e \in S : TRUE
         IN  RAdd(f[e], SetSum(f, S \ {e}))

\* m is a median of the values y[e], e in S: at least half of them lie on
\* either side of it
IsMedianOf(m, S) ==
    /\ 2 * Cardinality({e \in S : RLe(y[e], m)}) >= Cardinality(S)
    /\ 2 * Cardinality({e \in S : RLe(m, y[e])}) >= Cardinality(S)

\* position j of the result reports the placeholder statistics
AllZeroAt(j) ==
    /\ result.q84q16[j] = Zero
    /\ result.mean[j] = Zero
    /\ result.median[j] = Zero
    /\ result.variance[j] = Zero
    /\ result.rms[j] = AsRoot(Zero)

\* ------------------------------------------------------------------ C1
\* C1: every bin with fewer than 5 events (empty bins included) has its
\* midpoint in 'bins' and q84q16, mean, median, variance, rms all 0 there.
C1_SparseBinsZero ==
    pc = "done" =>
        \A i \in 1..NumBins :
            Cardinality(Members(i)) < 5 =>
                \E j \in 1..Len(result.bins) :
                    result.bins[j] = Mid(i) /\ AllZeroAt(j)

\* a returned call with a bin of exactly 4 events and an empty bin
C1_Witness ==
    /\ pc = "done"
    /\ \E i \in 1..NumBins : Cardinality(Members(i)) = 4
    /\ \E i \in 1..NumBins : Cardinality(Members(i)) = 0

\* ------------------------------------------------------------------ C2
\* C2: with an integer binSpec n the range floor(min)..ceil(max) is split
\* into n bins, so every array of the result has length n.
C2_IntegerBinCount ==
    (pc = "done" /\ bins.isint) =>
        /\ NumBins = bins.count
        /\ \A key \in ResultKeys : Len(result[key]) = bins.count

\* ------------------------------------------------------------------ C3
\* C3 (as claimed): with k+1 explicit ascending edges every array of the
\* result has length k, whatever the edge values are.
C3_ExplicitBinCount ==
    (pc = "done" /\ ~bins.isint) =>
        \A key \in ResultKeys : Len(result[key]) = Len(bins.edges) - 1

\* the midpoints of adjacent edges are pairwise distinct
DistinctMidpoints(e) ==
    \A i, j \in 1..(Len(e) - 1) :
        i # j => RAdd(e[i], e[i + 1]) # RAdd(e[j], e[j + 1])

\* C3 (amended): with k+1 explicit ascending edges whose adjacent-edge
\* midpoints are pairwise distinct, every array of the result has length k.
C3_ExplicitBinCountDistinct ==
    (pc = "done" /\ ~bins.isint /\ DistinctMidpoints(bins.edges)) =>
        \A key \in ResultKeys : Len(result[key]) = Len(bins.edges) - 1

\* a returned call on three strictly ascending explicit edges
C3_Witness ==
    /\ pc = "done"
    /\ ~bins.isint
    /\ Len(bins.edges) = 3
    /\ StrictlyAscending(bins.edges)
    /\ Len(result.bins) = 2

\* ------------------------------------------------------------------ C4
\* C4: an event is placed in bin i exactly when edge[i] <= v < edge[i+1];
\* with strictly ascending edges an event is in at most one bin, and an
\* event on an interior edge is in the bin that starts at that edge.
C4_HalfOpenBins ==
    pc = "done" =>
        /\ \A i \in 1..NumBins : \A e \in 1..Len(x) :
               InEntry(e, Mid(i)) <=> InBin(e, i)
        /\ StrictlyAscending(bin_edges) =>
               /\ \A e \in 1..Len(x) : Cardinality(EntriesOf(e)) <= 1
               /\ \A i \in 2..NumBins : \A e \in 1..Len(x) :
                      x[e] = bin_edges[i] =>
                          InEntry(e, Mid(i)) /\ ~InEntry(e, Mid(i - 1))

\* a returned call with edges 0, 1, 2 and an event on the interior edge 1
C4_Witness ==
    /\ pc = "done"
    /\ bin_edges = <<Int2Rat(0), Int2Rat(1), Int2Rat(2)>>
    /\ \E e \in 1..Len(x) : x[e] = Int2Rat(1) /\ InEntry(e, Rat(3, 2))

\* ------------------------------------------------------------------ C5
\* C5: an event is dropped exactly when its binning value is outside the
\* closed range [edge[0], edge[-1]]; every event inside it, the one on
\* edge[-1] included, is counted in exactly one bin.
C5_ClosedRangeKept ==
    (pc = "done" /\ Len(bin_edges) >= 2) =>
        \A e \in 1..Len(x) :
            Cardinality(EntriesOf(e)) =
                IF RLe(bin_edges[1], x[e]) /\ RLe(x[e], bin_edges[Len(bin_edges)])
                THEN 1 ELSE 0

\* ------------------------------------------------------------------ C6
\* C6: the scenario (values 10..50 binned on themselves, unit weights,
\* bins = 1) returns one bin covering [10, 50] with all five events,
\* mean 30, median 30, variance 200 and rms sqrt(660).
C6_Scenario ==
    ( /\ pc = "done"
      /\ x = ScenarioValues /\ y = ScenarioValues
      /\ weight = ScenarioWeights /\ bins = ScenarioBins ) =>
        /\ bin_edges = <<Int2Rat(10), Int2Rat(50)>>
        /\ Len(result.bins) = 1
        /\ Len(binned_residuals[1].data) = 5
        /\ result.mean[1] = Int2Rat(30)
        /\ result.median[1] = Int2Rat(30)
        /\ result.variance[1] = Int2Rat(200)
        /\ result.rms[1] = Sqrt(Int2Rat(660))

\* ------------------------------------------------------------------ C7
\* bin i holds exactly 5 events, all with observed value v and weight c
FiveIdentical(i, v, c) ==
    /\ Cardinality(Members(i)) = 5
    /\ \A e \in Members(i) : y[e] = v /\ weight[e] = c

\* the result reports mean v, median v, variance 0, rms |v|, q84q16 0 for
\* the bin with midpoint m
ReportsConstant(m, v) ==
    \E j \in 1..Len(result.bins) :
        /\ result.bins[j] = m
        /\ result.mean[j] = v
        /\ result.median[j] = v
        /\ result.variance[j] = Zero
        /\ result.rms[j] = AsRoot(RAbs(v))
        /\ result.q84q16[j] = Zero

\* C7 (as claimed): a bin of exactly 5 events with equal observed values v
\* and equal weights (any common weight) reports mean = median = v,
\* variance = 0, rms = |v| and q84q16 = 0.
C7_FiveIdentical ==
    pc = "done" =>
        \A i \in 1..NumBins : \A e \in Members(i) :
            FiveIdentical(i, y[e], weight[e]) => ReportsConstant(Mid(i), y[e])

\* C7 (amended): the same for any common weight other than 0.
C7_FiveIdenticalNonZeroWeight ==
    pc = "done" =>
        \A i \in 1..NumBins : \A e \in Members(i) :
            (FiveIdentical(i, y[e], weight[e]) /\ weight[e] # Zero)
                => ReportsConstant(Mid(i), y[e])

\* a returned call with a bin of 5 events of one negative value and one
\* non-zero weight
C7_Witness ==
    /\ pc = "done"
    /\ \E i \in 1..NumBins : \E e \in Members(i) :
           /\ FiveIdentical(i, y[e], weight[e])
           /\ weight[e] # Zero
           /\ RLt(y[e], Zero)
           /\ ReportsConstant(Mid(i), y[e])

\* ------------------------------------------------------------------ C8
\* C8: a bin with at least 5 events whose weights sum to 0 reports mean 0,
\* variance 0 and rms 0, while median and q84q16 are still those of the
\* in-bin values.
C8_ZeroWeightSum ==
    pc = "done" =>
        \A i \in 1..NumBins :
            (Cardinality(Members(i)) >= 5 /\ SetSum(weight, Members(i)) = Zero) =>
                \E j \in 1..Len(result.bins) :
                    /\ result.bins[j] = Mid(i)
                    /\ result.mean[j] = Zero
                    /\ result.variance[j] = Zero
                    /\ result.rms[j] = AsRoot(Zero)
                    /\ IsMedianOf(result.median[j], Members(i))
                    /\ RLe(Zero, result.q84q16[j])
                    /\ \E a, b \in Members(i) :
                           RLe(result.q84q16[j], RSub(y[a], y[b]))

\* a returned call with a bin of at least 5 events whose weights are not all
\* 0 but cancel, and whose values are not all the same
C8_Witness ==
    /\ pc = "done"
    /\ \E i \in 1..NumBins :
           /\ Cardinality(Members(i)) >= 5
           /\ SetSum(weight, Members(i)) = Zero
           /\ \E e \in Members(i) : weight[e] # Zero
           /\ \E a, b \in Members(i) : y[a] # y[b]

\* ------------------------------------------------------------------ C9
\* C9: for any weights, negative ones included, the reported rms is never
\* NaN and the reported variance is never negative.
C9_WellFormedMoments ==
    pc = "done" =>
        \A j \in 1..Len(result.bins) :
            ~result.rms[j].nan /\ RLe(Zero, result.variance[j])

\* ------------------------------------------------------------------ C10
\* C10: ComputeStats called with an empty event batch returns a result; it
\* does not raise.
C10_EmptyBatchReturns ==
    (Len(x) = 0 /\ pc # "call") => pc = "done"

\* --------------------------------- vocabulary of the get_spincorr_vars claims
\* number of events of the get_spincorr_vars call
SpinN == Len(tops)

\* the returned array stored under `key`
Out(key) == ttbar_spincorr_vars[key]

\* the ttbar system of event i
TTbar(i) == V4Add(tops[i], tbars[i])

\* the boosted top of event i has no spatial momentum
ZeroMomentum(i) ==
    ToXYZ(spin_boosts[i].boosted_tops) = Vec3(Zero, Zero, Zero)

\* the boosted top of event i lies along the beam: the sine of its
\* scattering angle is below 1e-9 and was replaced
AlongBeam(i) ==
    spin_axes[i].sin_scat_angle # SinTheta(spin_axes[i].k_axis)

\* the boosted top of event i is exactly perpendicular to the beam
Perpendicular(i) ==
    ~ZeroMomentum(i) /\ spin_boosts[i].boosted_tops.z = Zero

NonDegenerate(i) == ~ZeroMomentum(i) /\ ~AlongBeam(i)

\* v is a number of [-1, 1]
InUnitInterval(v) == ~IsNaN(v) /\ RLe(<<-1, 1>>, v) /\ RLe(v, One)

\* ------------------------------------------------------------------ C11
\* C11: top and antitop are each boosted once into the ttbar frame; the
\* lepton is boosted into the ttbar frame and then into the rest frame of
\* the boosted antitop; the antilepton into the ttbar frame and then into
\* the rest frame of the boosted top.
C11_BoostOrder ==
    spc = "done" =>
        \A i \in 1..SpinN :
            LET b == spin_boosts[i]
            IN  /\ b.ttbar_frame = TTbar(i)
                /\ b.boosted_tops = BoostCM_of(tops[i], TTbar(i))
                /\ b.boosted_tbars = BoostCM_of(tbars[i], TTbar(i))
                /\ b.boosted_ls =
                       BoostCM_of(BoostCM_of(ls[i], TTbar(i)), b.boosted_tbars)
                /\ b.boosted_lbars =
                       BoostCM_of(BoostCM_of(lbars[i], TTbar(i)), b.boosted_tops)

\* a returned call with an event of a moving ttbar system for which the
\* other pairing, the other order and a single boost all give another lepton
C11_Witness ==
    /\ spc = "done"
    /\ \E i \in 1..SpinN :
           LET b == spin_boosts[i]
           IN  /\ ToXYZ(TTbar(i)) # Vec3(Zero, Zero, Zero)
               /\ b.boosted_ls #
                      BoostCM_of(BoostCM_of(ls[i], TTbar(i)), b.boosted_tops)
               /\ b.boosted_ls #
                      BoostCM_of(BoostCM_of(ls[i], b.boosted_tbars), TTbar(i))
               /\ b.boosted_ls # BoostCM_of(ls[i], tbars[i])
               /\ b.boosted_ls # BoostCM_of(ls[i], TTbar(i))
               /\ b.boosted_lbars #
                      BoostCM_of(BoostCM_of(lbars[i], TTbar(i)), b.boosted_tbars)

\* ------------------------------------------------------------------ C12
\* C12: for every event and every pair x, y of {k, r, n} the returned c_xy
\* is b1x * b2y, first index from b1 and second from b2; all nine products
\* are present.  (A NaN analyzer gives a NaN product.)
C12_Products ==
    spc = "done" =>
        /\ {"c_kk", "c_rr", "c_nn", "c_rk", "c_kn", "c_nr", "c_kr", "c_rn",
            "c_nk"} \subseteq DOMAIN ttbar_spincorr_vars
        /\ \A i \in 1..SpinN :
               /\ Out("c_kk")[i] = FMul(Out("b1k")[i], Out("b2k")[i])
               /\ Out("c_kr")[i] = FMul(Out("b1k")[i], Out("b2r")[i])
               /\ Out("c_kn")[i] = FMul(Out("b1k")[i], Out("b2n")[i])
               /\ Out("c_rk")[i] = FMul(Out("b1r")[i], Out("b2k")[i])
               /\ Out("c_rr")[i] = FMul(Out("b1r")[i], Out("b2r")[i])
               /\ Out("c_rn")[i] = FMul(Out("b1r")[i], Out("b2n")[i])
               /\ Out("c_nk")[i] = FMul(Out("b1n")[i], Out("b2k")[i])
               /\ Out("c_nr")[i] = FMul(Out("b1n")[i], Out("b2r")[i])
               /\ Out("c_nn")[i] = FMul(Out("b1n")[i], Out("b2n")[i])

\* a returned call with an event whose c_rk and c_kr are different numbers
\* and whose products the other way round (b2x * b1y) would differ
C12_Witness ==
    /\ spc = "done"
    /\ \E i \in 1..SpinN :
           /\ ~IsNaN(Out("c_rk")[i]) /\ ~IsNaN(Out("c_kr")[i])
           /\ Out("c_rk")[i] # Out("c_kr")[i]
           /\ Out("c_kr")[i] # FMul(Out("b2k")[i], Out("b1r")[i])

\* ------------------------------------------------------------------ C13
\* C13: for every event c_han = c_kk - c_rr - c_nn and
\* c_hel = -c_kk - c_rr - c_nn, from the c_kk, c_rr, c_nn of the same
\* returned mapping.
C13_Combinations ==
    spc = "done" =>
        \A i \in 1..SpinN :
            /\ Out("c_han")[i] =
                   FSub(FSub(Out("c_kk")[i], Out("c_rr")[i]), Out("c_nn")[i])
            /\ Out("c_hel")[i] =
                   FSub(FSub(FNeg(Out("c_kk")[i]), Out("c_rr")[i]),
                        Out("c_nn")[i])

\* a returned call with an event whose c_han and c_hel are different numbers
\* and whose c_rr is not 0
C13_Witness ==
    /\ spc = "done"
    /\ \E i \in 1..SpinN :
           /\ ~IsNaN(Out("c_han")[i]) /\ ~IsNaN(Out("c_hel")[i])
           /\ Out("c_han")[i] # Out("c_hel")[i]
           /\ Out("c_rr")[i] # Zero

\* ------------------------------------------------------------------ C14
\* C14: the returned mapping has exactly the 18 keys b1k, b1r, b1n, b2k,
\* b2r, b2n, c_kk, c_rr, c_nn, c_rk, c_kn, c_nr, c_kr, c_rn, c_nk, ll_cHel,
\* c_han, c_hel; each holds one value per input event, entry i being the
\* value of event i alone.
C14_EighteenKeys ==
    spc = "done" =>
        /\ DOMAIN ttbar_spincorr_vars =
               {"b1k", "b1r", "b1n", "b2k", "b2r", "b2n", "c_kk", "c_rr",
                "c_nn", "c_rk", "c_kn", "c_nr", "c_kr", "c_rn", "c_nk",
                "ll_cHel", "c_han", "c_hel"}
        /\ Cardinality(DOMAIN ttbar_spincorr_vars) = 18
        /\ \A key \in DOMAIN ttbar_spincorr_vars :
               /\ Len(Out(key)) = SpinN
               /\ \A i \in 1..SpinN :
                      LET e == SpinEvent(tops[i], tbars[i], ls[i], lbars[i])
                      IN  Out(key)[i] = SpinOfEvent[e].out[key]

\* a returned call on the largest batch whose first two events differ in b1r
C14_Witness ==
    /\ spc = "done"
    /\ SpinN = MaxSpinN
    /\ tops[1] # tops[2]
    /\ Out("b1r")[1] # Out("b1r")[2]

\* ------------------------------------------------------------------ C15
\* C15: for every non-degenerate event (boosted top with spatial momentum
\* and not along the beam) each of b1k, b1r, b1n, b2k, b2r, b2n, the nine
\* c_xy and ll_cHel lies in [-1, 1].
C15_Bounded ==
    spc = "done" =>
        \A i \in 1..SpinN :
            NonDegenerate(i) =>
                \A key \in DOMAIN ttbar_spincorr_vars \ {"c_han", "c_hel"} :
                    InUnitInterval(Out(key)[i])

\* a returned call with a non-degenerate event that reaches the bound 1 in
\* one analyzer and whose lepton momenta are longer than 1
C15_Witness ==
    /\ spc = "done"
    /\ \E i \in 1..SpinN :
           /\ NonDegenerate(i)
           /\ Out("b2r")[i] = One
           /\ RLt(One, Mag3(ToXYZ(spin_boosts[i].boosted_ls)))

\* ------------------------------------------------------------------ C16
\* C16: for every event, including one whose boosted top is exactly
\* perpendicular to the beam, along the beam, or without spatial momentum,
\* each of the 18 observables is a finite number.
C16_TotalOnDegenerate ==
    spc = "done" =>
        \A i \in 1..SpinN :
            \A key \in DOMAIN ttbar_spincorr_vars : ~IsNaN(Out(key)[i])

\* the part of C16 the code keeps: an exactly perpendicular boosted top
\* gives 18 finite observables
C16_PerpendicularFinite ==
    spc = "done" =>
        \A i \in 1..SpinN :
            Perpendicular(i) =>
                \A key \in DOMAIN ttbar_spincorr_vars : ~IsNaN(Out(key)[i])

\* ------------------------------------------------------------------ C17
\* C17: when x, y and weight passed to ComputeStats do not all have the same
\* length, the call fails with an error.
C17_ShapeMismatchFails ==
    (pc # "call" /\ ~(Len(x) = Len(y) /\ Len(x) = Len(weight))) =>
        pc = "raised"

\* the part of C17 the code keeps: with at least one bin an unequal length
\* raises
C17_ShapeMismatchFailsWithBins ==
    (/\ pc # "call"
     /\ ~(Len(x) = Len(y) /\ Len(x) = Len(weight))
     /\ Len(x) = 0 \/ Len(BinMidpoints(BinEdgesOf(x, bins))) >= 1) =>
        pc = "raised"

\* ------------------------------------------------------------------ C18
\* the names of the arrays the two functions return
ReturnedArrays == ResultKeys \cup SpinKeys

\* C18: no step of ComputeStats or get_spincorr_vars changes the contents of
\* the caller's x, y, weight, bins, tops, tbars, ls, lbars, and no returned
\* array shares its buffer with one of them.
C18_InputsImmutable ==
    [][/\ x' = x /\ y' = y /\ weight' = weight /\ bins' = bins
       /\ tops' = tops /\ tbars' = tbars /\ ls' = ls /\ lbars' = lbars
       /\ \A a \in aliases' : a[1] \notin ReturnedArrays]_vars

\* a ComputeStats call has returned statistics of an unsorted y with edges
\* given as an array (which SplitInBins hands back as they are), and a
\* get_spincorr_vars call has returned the values of an event
C18_Witness ==
    /\ pc = "done"
    /\ y # Sort(y)
    /\ <<"bin_edges", "bins">> \in aliases
    /\ Len(result.bins) >= 1
    /\ spc = "done"
    /\ SpinN >= 1

\* ------------------------------------------------------------------ C19
\* C19: ComputeStats accepts `bins` given as a plain Python list of edges
\* and returns len(bins) - 1 bins keyed by the means of adjacent edges.
C19_ListAccepted ==
    (pc # "call" /\ ~bins.isint /\ bins.islist) =>
        /\ pc = "done"
        /\ Len(result.bins) = Len(bins.edges) - 1
        /\ \A i \in 1..(Len(bins.edges) - 1) :
               result.bins[i] =
                   RDiv(RAdd(bins.edges[i], bins.edges[i + 1]), Int2Rat(2))

\* the same edges in a numpy array are accepted whenever x is not empty
C19_ArrayAccepted ==
    (pc # "call" /\ ~bins.isint /\ ~bins.islist /\ Len(x) > 0) => pc = "done"

\* ------------------------------------------------------------------ C20
\* the events of bin i in input order
MemberSeq(i) == SelectSeq([e \in 1..Len(x) |-> e], LAMBDA e : InBin(e, i))

\* the six values ComputeStats reports for the events of bin i
StatisticsOfBin(i) ==
    StatsOfBin([key |-> Mid(i),
                data |-> Take(y, MemberSeq(i)),
                weight |-> Take(weight, MemberSeq(i))])

\* entry i of every result array belongs to bin i, and 'bins' ascends
BinsInOrder ==
    /\ Len(result.bins) = NumBins
    /\ \A i \in 1..NumBins :
           /\ result.bins[i] = Mid(i)
           /\ [key \in ResultKeys |-> result[key][i]] = StatisticsOfBin(i)
    /\ StrictlyAscending(result.bins)

\* C20 (as claimed): 'bins' holds (edge[i] + edge[i+1]) / 2 for bin i, its
\* entries are strictly increasing, and entry i of each other array is the
\* statistic of bin i, whatever the edges are.
C20_BinsInOrder == pc = "done" => BinsInOrder

\* C20 (amended): the same when the midpoints of adjacent edges are pairwise
\* distinct.
C20_BinsInOrderDistinct ==
    (pc = "done" /\ DistinctMidpoints(bin_edges)) => BinsInOrder

\* a returned call with two bins of distinct midpoints, the second holding
\* five events and a mean other than 0
C20_Witness ==
    /\ pc = "done"
    /\ NumBins = 2
    /\ DistinctMidpoints(bin_edges)
    /\ Cardinality(Members(2)) >= 5
    /\ result.mean[2] # Zero
    /\ result.mean[1] = Zero

\* ------------------------------------------------------------------ C21
\* the magnitude of the sine s is below 1e-9 (d > |n| * 1e9, by quotient and
\* remainder)
BelowSinFloor(s) ==
    \/ s[2] \div SinFloor[2] > Abs(s[1])
    \/ s[2] \div SinFloor[2] = Abs(s[1]) /\ s[2] % SinFloor[2] > 0

\* the sign bit of a sine is set
Negative(s) == s[1] < 0

NonZero3(a) == a # Vec3(Zero, Zero, Zero)

\* a and b are at right angles
Orthogonal3(a, b) == Dot3(a, b) = Zero

\* the axes of event i are three non-zero, mutually orthogonal directions
OrthogonalBasis(i) ==
    /\ NonZero3(spin_axes[i].k_axis)
    /\ NonZero3(spin_axes[i].r_axis)
    /\ NonZero3(spin_axes[i].n_axis)
    /\ Orthogonal3(spin_axes[i].k_axis, spin_axes[i].r_axis)
    /\ Orthogonal3(spin_axes[i].k_axis, spin_axes[i].n_axis)
    /\ Orthogonal3(spin_axes[i].r_axis, spin_axes[i].n_axis)

\* C22: for every event whose boosted top has non-zero spatial momentum,
\* k_axis, r_axis and n_axis are three non-zero, mutually orthogonal
\* directions; r_axis and n_axis are never the zero vector.
C22_OrthogonalBasis ==
    spc = "done" =>
        \A i \in 1..SpinN : ~ZeroMomentum(i) => OrthogonalBasis(i)

\* the part of C22 the code keeps: the axes of an event whose boosted top
\* has momentum and is not along the beam
C22_OrthogonalBasisOffBeam ==
    spc = "done" =>
        \A i \in 1..SpinN : NonDegenerate(i) => OrthogonalBasis(i)

\* ------------------------------------------------------------------ C23
AxisNames == {"k", "r", "n"}

\* the axes ax with the axis named a negated
NegatedAxis(ax, a) ==
    CASE a = "k" -> [ax EXCEPT !.k_axis = Minus3(@)]
      [] a = "r" -> [ax EXCEPT !.r_axis = Minus3(@)]
      [] a = "n" -> [ax EXCEPT !.n_axis = Minus3(@)]

\* the boosted momenta and axes get_spincorr_vars can hold for an event
SpinLocals ==
    {[boosts |-> SpinOfEvent[e].boosts, axes |-> SpinOfEvent[e].axes] :
        e \in SpinEvents}

\* for such locals: the cosines of the angle between the antilepton and
\* each axis (toward) and between the lepton and the opposite of each axis
\* (away), and the returned values when one axis is negated
AnglesOfLocals ==
    [s \in SpinLocals |->
        [toward |-> [k |-> CosDeltaAngle(s.boosts.boosted_lbars, s.axes.k_axis),
                     r |-> CosDeltaAngle(s.boosts.boosted_lbars, s.axes.r_axis),
                     n |-> CosDeltaAngle(s.boosts.boosted_lbars, s.axes.n_axis)],
         away |-> [k |-> CosDeltaAngle(s.boosts.boosted_ls,
                                       Minus3(s.axes.k_axis)),
                   r |-> CosDeltaAngle(s.boosts.boosted_ls,
                                       Minus3(s.axes.r_axis)),
                   n |-> CosDeltaAngle(s.boosts.boosted_ls,
                                       Minus3(s.axes.n_axis))],
         negated |-> [a \in AxisNames |->
                         SpinVars(s.boosts, NegatedAxis(s.axes, a))]]]

AnglesOf(i) ==
    AnglesOfLocals[[boosts |-> spin_boosts[i], axes |-> spin_axes[i]]]

\* C23: b1k, b1r, b1n are the cosines of the angle between the doubly
\* boosted antilepton and +k, +r, +n; b2k, b2r, b2n those between the doubly
\* boosted lepton and -k, -r, -n; negating an axis x flips the sign of b1x
\* and of b2x and leaves c_xx unchanged.
C23_AnalyzerSigns ==
    spc = "done" =>
        \A i \in 1..SpinN :
            /\ Out("b1k")[i] = AnglesOf(i).toward.k
            /\ Out("b1r")[i] = AnglesOf(i).toward.r
            /\ Out("b1n")[i] = AnglesOf(i).toward.n
            /\ Out("b2k")[i] = AnglesOf(i).away.k
            /\ Out("b2r")[i] = AnglesOf(i).away.r
            /\ Out("b2n")[i] = AnglesOf(i).away.n
            /\ \A a \in AxisNames :
                   /\ AnglesOf(i).negated[a]["b1" \o a] = FNeg(Out("b1" \o a)[i])
                   /\ AnglesOf(i).negated[a]["b2" \o a] = FNeg(Out("b2" \o a)[i])
                   /\ AnglesOf(i).negated[a]["c_" \o a \o a] =
                          Out("c_" \o a \o a)[i]

\* a call with an event off the beam whose c_kk and c_rr are products of
\* analyzers other than 0 and whose b2n is not 0, and one whose b1n is not 0
C23_Witness ==
    /\ spc = "done"
    /\ \E i \in 1..SpinN :
           /\ NonDegenerate(i)
           /\ \A key \in {"c_kk", "c_rr", "b2n"} :
                  ~IsNaN(Out(key)[i]) /\ Out(key)[i] # Zero
    /\ \E j \in 1..SpinN :
           /\ NonDegenerate(j)
           /\ ~IsNaN(Out("b1n")[j]) /\ Out("b1n")[j] # Zero

\* ------------------------------------------------------------------ C24
\* the events whose values entry j of the result was computed from
EventsOf(j) == Range(binned_residuals[j].mask)

\* the k-th smallest of the observed values y[e], e in S (1 <= k <= |S|)
KthSmallest(S, k) ==
    CHOOSE v \in {y[e] : e \in S} :
        /\ Cardinality({e \in S : RLt(y[e], v)}) < k
        /\ k <= Cardinality({e \in S : RLe(y[e], v)})

\* the p-th percentile of the observed values of S: the order statistic at
\* fractional rank p * (|S| - 1) / 100, interpolated linearly
PercentileOf(S, p) ==
    LET rank == Rat(p * (Cardinality(S) - 1), 100)
        below == Floor(rank)
    IN  IF RSub(rank, Int2Rat(below)) = Zero THEN KthSmallest(S, below + 1)
        ELSE RAdd(RMul(RSub(Int2Rat(below + 1), rank),
                       KthSmallest(S, below + 1)),
                  RMul(RSub(rank, Int2Rat(below)),
                       KthSmallest(S, below + 2)))

\* C24: for a reported bin with at least 5 events, median is the 50th and
\* q84q16 the 84th minus the 16th percentile of the bin's observed values,
\* the p-th percentile being the order statistic at fractional rank
\* p * (n - 1) / 100 with linear interpolation; q84q16 >= 0; both are
\* functions of the set of in-bin values alone, not of weights or order.
C24_OrderStatistics ==
    pc = "done" =>
        \A j \in 1..Len(result.bins) :
            Cardinality(EventsOf(j)) >= 5 =>
                /\ result.median[j] = PercentileOf(EventsOf(j), 50)
                /\ result.q84q16[j] =
                       RSub(PercentileOf(EventsOf(j), 84),
                            PercentileOf(EventsOf(j), 16))
                /\ RLe(Zero, result.q84q16[j])

\* a reported bin of at least 5 events given in descending then ascending
\* order of value, with unequal weights and a q84q16 above 0
C24_Witness ==
    /\ pc = "done"
    /\ \E j \in 1..Len(result.bins) :
           /\ Cardinality(EventsOf(j)) >= 5
           /\ \E a, b, c \in EventsOf(j) :
                  a < b /\ b < c /\ RLt(y[b], y[a]) /\ RLt(y[b], y[c])
           /\ \E a, b \in EventsOf(j) : weight[a] # weight[b]
           /\ RLt(Zero, result.q84q16[j])

\* ------------------------------------------------------------------ C27
\* entry j of the result reports rms^2 = variance + mean^2
RmsIdentity(j) ==
    /\ ~result.rms[j].nan
    /\ result.rms[j].sq =
           RAdd(result.variance[j], RMul(result.mean[j], result.mean[j]))

\* entry j was computed from at least 5 events whose weights do not sum to 0
WeightedBin(j) ==
    /\ Cardinality(EventsOf(j)) >= 5
    /\ SetSum(weight, EventsOf(j)) # Zero

\* C27: for every reported bin with at least 5 events and a non-zero weight
\* sum, rms^2 = variance + mean^2.
C27_RmsIdentity ==
    pc = "done" =>
        \A j \in 1..Len(result.bins) : WeightedBin(j) => RmsIdentity(j)

\* the part of C27 the code keeps: the identity wherever rms is a number
C27_RmsIdentityWhenDefined ==
    pc = "done" =>
        \A j \in 1..Len(result.bins) :
            (WeightedBin(j) /\ ~result.rms[j].nan) => RmsIdentity(j)

\* ------------------------------------------------------------------ C28
\* the array a with positions i and i + 1 exchanged
SwapAt(a, i) ==
    [k \in 1..Len(a) |-> IF k = i THEN a[i + 1] ELSE IF k = i + 1 THEN a[i] ELSE a[k]]

\* the result ComputeStats returns for the batch with events i and i + 1
\* exchanged in x, y and weight alike
ResultSwappedAt(i) ==
    StatsOf(SplitInBins(SwapAt(y, i), SwapAt(x, i), SwapAt(weight, i),
                        bins).binned_data)

\* C28: applying one permutation to x, y and weight leaves the result of
\* ComputeStats unchanged for the same bins.  Every permutation is a product
\* of exchanges of neighbours, and every order of a batch is an input, so the
\* claim is that no exchange of two neighbours changes the result.
C28_OrderInvariant ==
    pc = "done" => \A i \in 1..(Len(x) - 1) : ResultSwappedAt(i) = result

\* a returned call on a batch not in ascending order of x, with a reported
\* bin of at least 5 events of unequal values and weights whose mean is not 0
C28_Witness ==
    /\ pc = "done"
    /\ \E i \in 1..(Len(x) - 1) : RLt(x[i + 1], x[i])
    /\ \E j \in 1..Len(result.bins) :
           /\ Cardinality(EventsOf(j)) >= 5
           /\ \E a, b \in EventsOf(j) : y[a] # y[b] /\ weight[a] # weight[b]
           /\ result.mean[j] # Zero
           /\ ~result.rms[j].nan

\* ------------------------------------------------------------------ C29
\* entry k of the split holds, position by position and in input order, the
\* observed value and the weight of the events of bin i
HoldsEventsOf(k, i) ==
    /\ binned_residuals[k].key = Mid(i)
    /\ Len(binned_residuals[k].data) = Len(MemberSeq(i))
    /\ Len(binned_residuals[k].weight) = Len(MemberSeq(i))
    /\ \A j \in 1..Len(MemberSeq(i)) :
           /\ binned_residuals[k].data[j] = y[MemberSeq(i)[j]]
           /\ binned_residuals[k].weight[j] = weight[MemberSeq(i)[j]]

\* C29: in every entry of the split 'data' and 'weight' have the same
\* length, position j of both is one input event (its value and its
\* weight), and the events are in their input order.
C29_DataWeightAligned ==
    pc = "done" =>
        \A k \in 1..Len(binned_residuals) :
            /\ Len(binned_residuals[k].data) = Len(binned_residuals[k].weight)
            /\ \E i \in 1..NumBins : HoldsEventsOf(k, i)

\* an entry of the split made of events that are not neighbours in the
\* input, with two values and two weights
C29_Witness ==
    /\ pc = "done"
    /\ \E k \in 1..Len(binned_residuals) : \E i \in 1..NumBins :
           /\ HoldsEventsOf(k, i)
           /\ \E a, b \in Members(i) :
                  /\ a + 1 < b
                  /\ a + 1 \notin Members(i)
                  /\ y[a] # y[b]
                  /\ weight[a] # weight[b]

\* ------------------------------------------------------------------ C26
\* bin i is the bin the value v is to be counted in: the first bin for a
\* value below the first edge, the last bin for a value above the last edge,
\* otherwise the bin whose interval holds v
CountedIn(v, i) ==
    \/ i = 1 /\ FLt(v, hist_edges[1])
    \/ i = Len(hist_edges) - 1 /\ FLt(hist_edges[Len(hist_edges)], v)
    \/ HistBinHolds(v, hist_edges, i)

RECURSIVE SumInts(_)
SumInts(c) == IF c = <<>> THEN 0 ELSE Head(c) + SumInts(Tail(c))

\* the counts c drawn for the array value hold every value below the edges
\* in the first bin, every value above them in the last bin, and every event
\* in exactly one bin
CountsEveryEvent(value, c) ==
    /\ \A i \in 1..Len(c) :
           c[i] = Cardinality({j \in 1..Len(value) : CountedIn(value[j], i)})
    /\ SumInts(c) = Len(value)

\* the same for the events whose value is a number
CountsEveryNumber(value, c) ==
    /\ \A i \in 1..Len(c) :
           c[i] = Cardinality({j \in 1..Len(value) : CountedIn(value[j], i)})
    /\ SumInts(c) = Cardinality({j \in 1..Len(value) : ~IsNaN(value[j])})

\* hist_1D has drawn something with ufof=True
DrawnWithUfOf == hpc \in {"done", "raised"} /\ ufof

\* C26: with ufof=True every value below bin_edges[0] is counted in the
\* first bin and every value above bin_edges[-1] in the last, so every event
\* of every plotted distribution is counted in exactly one bin; the call
\* leaves the caller's arrays unchanged.
C26_UnderOverflowCounted ==
    /\ [](DrawnWithUfOf =>
            /\ \A k \in 1..Len(fill_counts) :
                   CountsEveryEvent(fill_hists[k], fill_counts[k])
            /\ \A k \in 1..Len(nofill_counts) :
                   CountsEveryEvent(nofill_hists[k], nofill_counts[k]))
    /\ [][fill_hists' = fill_hists /\ nofill_hists' = nofill_hists]_vars

\* the part of C26 the code keeps: every value that is a number is counted
\* in exactly one bin, and the caller's arrays are unchanged
C26_NumbersCounted ==
    /\ [](DrawnWithUfOf =>
            /\ \A k \in 1..Len(fill_counts) :
                   CountsEveryNumber(fill_hists[k], fill_counts[k])
            /\ \A k \in 1..Len(nofill_counts) :
                   CountsEveryNumber(nofill_hists[k], nofill_counts[k]))
    /\ [][fill_hists' = fill_hists /\ nofill_hists' = nofill_hists]_vars

\* a drawn distribution with a value below and a value above the edges
C26_UnderAndOverflowDrawn ==
    /\ hpc = "done" /\ ufof
    /\ \E j \in 1..Len(fill_hists[1]) :
           FLt(fill_hists[1][j], hist_edges[1])
    /\ \E j \in 1..Len(fill_hists[1]) :
           FLt(hist_edges[Len(hist_edges)], fill_hists[1][j])
    /\ Len(hist_edges) = 3
    /\ fill_counts[1] = <<1, 1>>

\* ------------------------------------------------------------------ C25
\* the events of the ttbarsignal files of the three channels: channel
\* number, position of the file in its directory, row
SignalEvents ==
    {ev \in (1..3) \X (1..4) \X (1..MaxRows) :
        /\ ev[2] <= Len(files[channels[ev[1]]])
        /\ files[channels[ev[1]]][ev[2]].ttbarsignal
        /\ ~files[channels[ev[1]]][ev[2]].boundstate
        /\ ev[3] <= Len(files[channels[ev[1]]][ev[2]].mask)}

\* the event of a row of a returned array
EventOfRow(row) ==
    <<CHOOSE c \in 1..3 : channels[c] = row.channel, row.file, row.row>>

\* the events the rows of the array a belong to
EventsIn(a) == {EventOfRow(a[i]) : i \in 1..Len(a)}

\* C25: getAllData on the era '2017', which has no transformer results,
\* completes: it returns the generator-level, mlb-weighting, weight and
\* mlb-filter arrays of that era with every event kept (all-True dilepton
\* mask), and no exception comes from the empty transformer list.
C25_Handles2017 ==
    (lpc \in {"done", "raised"} /\ process_eras = {"2017"}
        /\ SignalEvents # {}) =>
        /\ lpc = "done"
        /\ EventsIn(gen_top_tot["2017"]) = SignalEvents
        /\ EventsIn(mlb_top_tot["2017"]) = SignalEvents
        /\ EventsIn(weight_tot["2017"]) = SignalEvents
        /\ EventsIn(filter_mlb_tot["2017"]) = SignalEvents

\* what the code does: a call that names '2017' never returns
C25_Raises2017 == "2017" \in process_eras => lpc # "done"

\* ------------------------------------------------------------------ C30
\* the events of era e that pass the dilepton mask
PassingEvents(e) ==
    {ev \in SignalEvents :
        e = "2017" \/ files[channels[ev[1]]][ev[2]].mask[ev[3]]}

\* event a comes before event b: by channel, then file, then row
EventBefore(a, b) ==
    \/ a[1] < b[1]
    \/ a[1] = b[1] /\ a[2] < b[2]
    \/ a[1] = b[1] /\ a[2] = b[2] /\ a[3] < b[3]

\* the array a of era e holds one row of the array `name` for every passing
\* event, in the order of channels, files and rows
HoldsPassingEvents(a, name, e) ==
    /\ Len(a) = Cardinality(PassingEvents(e))
    /\ \A i \in 1..Len(a) :
           /\ a[i].array = name
           /\ a[i].era = e
           /\ EventOfRow(a[i]) \in PassingEvents(e)
    /\ \A i \in 1..(Len(a) - 1) : EventBefore(EventOfRow(a[i]), EventOfRow(a[i + 1]))

\* C30: for each processed era gen_top_tot, mlb_top_tot, weight_tot and
\* filter_mlb_tot have the same number of rows, the number of events passing
\* the concatenated dilepton mask; row i of each belongs to the same event
\* of the same channel and file, the files being concatenated in one common
\* order.
C30_RowsAligned ==
    lpc = "done" =>
        \A e \in process_eras :
            /\ HoldsPassingEvents(gen_top_tot[e], "gen_top", e)
            /\ HoldsPassingEvents(mlb_top_tot[e], "mlb_top", e)
            /\ HoldsPassingEvents(weight_tot[e], "weight", e)
            /\ HoldsPassingEvents(filter_mlb_tot[e], "mlb_filter", e)
            /\ \A i \in 1..Len(gen_top_tot[e]) :
                   /\ EventOfRow(mlb_top_tot[e][i]) = EventOfRow(gen_top_tot[e][i])
                   /\ EventOfRow(weight_tot[e][i]) = EventOfRow(gen_top_tot[e][i])
                   /\ EventOfRow(filter_mlb_tot[e][i]) =
                          EventOfRow(gen_top_tot[e][i])

\* a returned call with an era one of whose events is masked out, with a
\* passing event in a later file of the same channel and one in another
\* channel
C30_Witness ==
    /\ lpc = "done"
    /\ \E e \in process_eras :
           \E ev \in SignalEvents \ PassingEvents(e) :
           \E a, b \in PassingEvents(e) :
               ev[1] = a[1] /\ ev[2] < a[2] /\ b[1] # a[1]

====
